---- MODULE Spec2Model ----
(***************************************************************************)
(* Model of boox-annotations-to-zotero: the command-line entry point       *)
(* (main.py), the book matcher (database.find_epub_in_database) and the    *)
(* annotation importer (import_annotations.import_annotations_to_database  *)
(* and database.AnnotationImporter) over the Zotero SQLite store.          *)
(*                                                                         *)
(* Strings are sequences of one-character strings, so that substring,      *)
(* LIKE, lower(), split() and removeprefix() are computed as the code      *)
(* computes them.                                                          *)
(***************************************************************************)
EXTENDS Integers, Sequences, FiniteSets, TLC

(***************************************************************************)
(* Bounds of the model.                                                    *)
(***************************************************************************)
\* Largest number of itemAttachments rows in a catalog.
MaxCatalog == 2

(***************************************************************************)
(* Program constants.                                                      *)
(***************************************************************************)
\* src/config.py:21  ZOTERO_KEY_CHARS = "23456789ABCDEFGHJKLMNPQRSTUVWXYZ"
ZOTERO_KEY_CHARS ==
    << "2", "3", "4", "5", "6", "7", "8", "9",
       "A", "B", "C", "D", "E", "F", "G", "H", "J", "K", "L", "M",
       "N", "P", "Q", "R", "S", "T", "U", "V", "W", "X", "Y", "Z" >>
\* src/config.py:22
ZOTERO_KEY_LENGTH == 8
\* src/config.py:8
LIBRARY_ID == 1
\* src/config.py:11
ANNOTATION_ITEM_TYPE_ID == 1
\* src/config.py:12
HIGHLIGHT_TYPE == 1
\* src/config.py:13  "#ffd400"
DEFAULT_HIGHLIGHT_COLOR == "#ffd400"

(***************************************************************************)
(* Characters and strings.                                                 *)
(***************************************************************************)
UPPER ==
    << "A", "B", "C", "D", "E", "F", "G", "H", "I", "J", "K", "L", "M",
       "N", "O", "P", "Q", "R", "S", "T", "U", "V", "W", "X", "Y", "Z" >>
LOWER ==
    << "a", "b", "c", "d", "e", "f", "g", "h", "i", "j", "k", "l", "m",
       "n", "o", "p", "q", "r", "s", "t", "u", "v", "w", "x", "y", "z" >>
DIGITS == { "0", "1", "2", "3", "4", "5", "6", "7", "8", "9" }
NEWLINE == "\n"
WHITESPACE == { " ", NEWLINE }

\* str.lower() on one character.
LowerChar(c) ==
    IF \E i \in 1..Len(UPPER) : UPPER[i] = c
    THEN LOWER[CHOOSE i \in 1..Len(UPPER) : UPPER[i] = c]
    ELSE c

\* str.lower()
LowerStr(s) == [i \in 1..Len(s) |-> LowerChar(s[i])]

\* str.isdigit(): non-empty and every character a digit.
IsDigitStr(s) == Len(s) > 0 /\ \A i \in 1..Len(s) : s[i] \in DIGITS

StartsWith(s, p) == Len(s) >= Len(p) /\ SubSeq(s, 1, Len(p)) = p
EndsWith(s, p) == Len(s) >= Len(p) /\ SubSeq(s, Len(s) - Len(p) + 1, Len(s)) = p

\* str.removeprefix / str.removesuffix (case-sensitive, at most once).
RemovePrefix(s, p) == IF StartsWith(s, p) THEN SubSeq(s, Len(p) + 1, Len(s)) ELSE s
RemoveSuffix(s, p) == IF EndsWith(s, p) THEN SubSeq(s, 1, Len(s) - Len(p)) ELSE s

\* s contains p as a literal, case-sensitive substring.
Contains(s, p) ==
    \E i \in 0..(Len(s) - Len(p)) : SubSeq(s, i + 1, i + Len(p)) = p

\* str.strip()
RECURSIVE LStrip(_)
LStrip(s) ==
    IF s # << >> /\ Head(s) \in WHITESPACE THEN LStrip(Tail(s)) ELSE s
RECURSIVE RStrip(_)
RStrip(s) ==
    IF s # << >> /\ s[Len(s)] \in WHITESPACE
    THEN RStrip(SubSeq(s, 1, Len(s) - 1))
    ELSE s
Strip(s) == RStrip(LStrip(s))

\* set(str.split()): the set of maximal runs of non-whitespace characters.
RECURSIVE SplitFrom(_, _, _)
SplitFrom(s, i, cur) ==
    IF i > Len(s)
    THEN (IF cur = << >> THEN {} ELSE {cur})
    ELSE IF s[i] \in WHITESPACE
         THEN (IF cur = << >> THEN {} ELSE {cur}) \cup SplitFrom(s, i + 1, << >>)
         ELSE SplitFrom(s, i + 1, Append(cur, s[i]))
SplitSet(s) == SplitFrom(s, 1, << >>)

\* SQLite's LIKE: '%' matches any run of characters, '_' any one character,
\* every other character matches itself without regard to ASCII letter case.
RECURSIVE Like(_, _)
Like(p, s) ==
    IF p = << >> THEN s = << >>
    ELSE IF Head(p) = "%"
         THEN \E k \in 0..Len(s) : Like(Tail(p), SubSeq(s, k + 1, Len(s)))
         ELSE IF s = << >> THEN FALSE
              ELSE /\ (Head(p) = "_" \/ LowerChar(Head(p)) = LowerChar(Head(s)))
                   /\ Like(Tail(p), Tail(s))

DOT_EPUB == << ".", "e", "p", "u", "b" >>
ATTACHMENTS == << "a", "t", "t", "a", "c", "h", "m", "e", "n", "t", "s", ":" >>

(***************************************************************************)
(* Book matcher: database.find_epub_in_database.                           *)
(* A catalog is the itemAttachments table in scan order, each row joined   *)
(* with the creators and the title of its parent item:                     *)
(* [itemID, parentItemID, path, creators, title].                          *)
(***************************************************************************)
STOP_WORDS ==
    { << "t", "h", "e" >>, << "a" >>, << "a", "n" >>, << "a", "n", "d" >>,
      << "o", "r" >>, << "b", "u", "t" >>, << "i", "n" >>, << "o", "n" >>,
      << "a", "t" >>, << "t", "o" >>, << "f", "o", "r" >> }

\* The value the function returns when nothing matches.
NoMatch == [found |-> FALSE]

\* EPUBInfo(item_id, parent_id, filename); stage records which return
\* statement built the value (it is not a field of EPUBInfo).
EPUBInfo(row, stage) ==
    [found |-> TRUE, item_id |-> row.itemID, parent_id |-> row.parentItemID,
     filename |-> RemovePrefix(row.path, ATTACHMENTS), stage |-> stage]

\* WHERE path LIKE '%.epub'
IsEpubRow(row) == Like(<< "%" >> \o DOT_EPUB, row.path)

\* WHERE path LIKE '%<identifier>%' AND path LIKE '%.epub'
ExactRow(row, book_identifier) ==
    /\ Like(<< "%" >> \o book_identifier \o << "%" >>, row.path)
    /\ IsEpubRow(row)

\* identifier_tokens: lower-cased, whitespace-split, stop words and
\* pure-digit tokens removed.
IdentifierTokens(book_identifier) ==
    { t \in SplitSet(LowerStr(book_identifier)) :
        t \notin STOP_WORDS /\ ~IsDigitStr(t) }

\* filename_tokens of one row.
FilenameTokens(row) ==
    { t \in SplitSet(LowerStr(RemoveSuffix(RemovePrefix(row.path, ATTACHMENTS),
                                           DOT_EPUB))) :
        t \notin STOP_WORDS }

\* metadata_tokens of one row: f"{creators} {title}".lower().split()
MetadataTokens(row) ==
    { t \in SplitSet(LowerStr(row.creators \o << " " >> \o row.title)) :
        t \notin STOP_WORDS /\ Len(t) > 2 }

\* A score is the fraction num/den = len(intersection)/len(union); the
\* float quotient of two small integers compares with another such
\* quotient, and with the literal 0.3, as the exact fractions do.
Jaccard(A, B) ==
    IF A \cup B = {} THEN [num |-> 0, den |-> 1]
    ELSE [num |-> Cardinality(A \cap B), den |-> Cardinality(A \cup B)]

\* A later candidate with an equal score replaces the earlier one.
ScoreGreater_or_equal(s, t) == s.num * t.den >= t.num * s.den
ScoreGreater(s, t) == s.num * t.den > t.num * s.den

\* The comparison written >= instead of >.
Accepted_at_threshold(best) ==
    best.match # NoMatch /\ 10 * best.score.num >= 3 * best.score.den

\* best_match and best_score > 0.3
Accepted(best) == best.match # NoMatch /\ 10 * best.score.num > 3 * best.score.den

InitialBest == [match |-> NoMatch, score |-> [num |-> 0, den |-> 1]]

\* The loop of strategy 2 from row i on.
RECURSIVE FilenameLoop(_, _, _, _)
FilenameLoop(all_epubs, identifier_tokens, i, best) ==
    IF i > Len(all_epubs) THEN best
    ELSE LET row == all_epubs[i]
             score == Jaccard(identifier_tokens, FilenameTokens(row))
         IN  IF identifier_tokens # {} /\ ScoreGreater(score, best.score)
             THEN FilenameLoop(all_epubs, identifier_tokens, i + 1,
                               [match |-> row, score |-> score])
             ELSE FilenameLoop(all_epubs, identifier_tokens, i + 1, best)

\* The loop of strategy 3 from row i on.
RECURSIVE MetadataLoop(_, _, _, _)
MetadataLoop(metadata_matches, identifier_tokens, i, best) ==
    IF i > Len(metadata_matches) THEN best
    ELSE LET row == metadata_matches[i]
             metadata_tokens == MetadataTokens(row)
             score == Jaccard(identifier_tokens, metadata_tokens)
         IN  IF /\ identifier_tokens # {}
                /\ metadata_tokens # {}
                /\ ScoreGreater(score, best.score)
             THEN MetadataLoop(metadata_matches, identifier_tokens, i + 1,
                               [match |-> row, score |-> score])
             ELSE MetadataLoop(metadata_matches, identifier_tokens, i + 1, best)

Stage2Best(catalog, book_identifier) ==
    FilenameLoop(SelectSeq(catalog, IsEpubRow),
                 IdentifierTokens(book_identifier), 1, InitialBest)
\* Strategy 3 scoring against the identifier's tokens with the stop words
\* kept and only the pure-digit tokens removed.
Stage3Best_stop_words_kept(catalog, book_identifier) ==
    MetadataLoop(SelectSeq(catalog, IsEpubRow),
                 { t \in SplitSet(LowerStr(book_identifier)) : ~IsDigitStr(t) },
                 1, InitialBest)
Stage3Best(catalog, book_identifier) ==
    MetadataLoop(SelectSeq(catalog, IsEpubRow),
                 IdentifierTokens(book_identifier), 1, InitialBest)

\* The strategies after the first, entered only when the first found no
\* row.
FuzzyStages(catalog, book_identifier) ==
    LET all_epubs == SelectSeq(catalog, IsEpubRow)
        best2 == Stage2Best(catalog, book_identifier)
        best3 == Stage3Best(catalog, book_identifier)
    IN  IF all_epubs = << >> THEN NoMatch
        ELSE IF Accepted(best2) THEN EPUBInfo(best2.match, "fuzzy")
        ELSE IF Accepted(best3) THEN EPUBInfo(best3.match, "metadata")
        ELSE NoMatch

\* The strategies in the wrong order: the fuzzy ones before the exact one.
find_epub_fuzzy_first(catalog, book_identifier) ==
    LET exact == SelectSeq(catalog, LAMBDA row : ExactRow(row, book_identifier))
        fuzzy == FuzzyStages(catalog, book_identifier)
    IN  IF fuzzy.found THEN fuzzy
        ELSE IF exact # << >> THEN EPUBInfo(exact[1], "exact")
        ELSE NoMatch

find_epub_in_database(catalog, book_identifier) ==
    LET exact == SelectSeq(catalog, LAMBDA row : ExactRow(row, book_identifier))
    IN  IF exact # << >> THEN EPUBInfo(exact[1], "exact")
        ELSE FuzzyStages(catalog, book_identifier)

(***************************************************************************)
(* Inputs of the matcher: the book identifiers and the catalog rows the    *)
(* model draws from.                                                       *)
(***************************************************************************)
\* "bb cc"
ID_bb_cc ==
    << "b", "b", " ", "c", "c" >>
\* "b c d e f g": six one-letter tokens
ID_six_short ==
    << "b", " ", "c", " ", "d", " ", "e", " ", "f", " ", "g" >>
\* "bbb ccc ddd eee fff ggg": six three-letter tokens
ID_six_long ==
    << "b", "b", "b", " ", "c", "c", "c", " ", "d", "d", "d", " ", "e", "e", "e", " ", "f", "f", "f", " ", "g", "g", "g" >>
\* "bbb ccc"
ID_bbb_ccc ==
    << "b", "b", "b", " ", "c", "c", "c" >>
\* "the 1998": a stop word and a pure-digit token, no identifier token is left
ID_the_1998 ==
    << "t", "h", "e", " ", "1", "9", "9", "8" >>
\* "BB CC": "bb cc" in upper case
ID_upper ==
    << "B", "B", " ", "C", "C" >>
\* "b_ cc": "bb cc" with a character that LIKE reads as a wildcard
ID_wildcard ==
    << "b", "_", " ", "c", "c" >>
\* "the a bbb": two stop words and one token
ID_the_a_bbb ==
    << "t", "h", "e", " ", "a", " ", "b", "b", "b" >>
Identifiers ==
    { ID_bb_cc, ID_six_short, ID_six_long, ID_bbb_ccc, ID_the_1998,
      ID_upper, ID_wildcard, ID_the_a_bbb }
\* "attachments:xx bb cc yy zz.epub": holds "bb cc" as a substring, filename Jaccard with "bb cc" is 2/5
ROW_exact ==
    [itemID |-> 11, parentItemID |-> 1,
     path |-> ATTACHMENTS \o << "x", "x", " ", "b", "b", " ", "c", "c", " ", "y", "y", " ", "z", "z", ".", "e", "p", "u", "b" >>,
     creators |-> << >>,
     title |-> << >>]
\* "attachments:cc bb.epub": no substring "bb cc", filename Jaccard with "bb cc" is 2/2
ROW_swapped ==
    [itemID |-> 12, parentItemID |-> 2,
     path |-> ATTACHMENTS \o << "c", "c", " ", "b", "b", ".", "e", "p", "u", "b" >>,
     creators |-> << >>,
     title |-> << >>]
\* "attachments:b c d h i j k.epub": filename Jaccard with "b c d e f g" is exactly 3/10
ROW_three_of_ten ==
    [itemID |-> 13, parentItemID |-> 3,
     path |-> ATTACHMENTS \o << "b", " ", "c", " ", "d", " ", "h", " ", "i", " ", "j", " ", "k", ".", "e", "p", "u", "b" >>,
     creators |-> << >>,
     title |-> << >>]
\* "attachments:bbb ccc ddd hh ii jj kk.epub": filename Jaccard and metadata
\* Jaccard with "bbb ccc ddd eee fff ggg" are both exactly 3/10
ROW_meta_three_of_ten ==
    [itemID |-> 14, parentItemID |-> 4,
     path |-> ATTACHMENTS \o
              << "b", "b", "b", " ", "c", "c", "c", " ", "d", "d", "d", " ", "h", "h", " ", "i", "i", " ", "j", "j", " ", "k", "k", ".", "e", "p", "u", "b" >>,
     creators |-> << "b", "b", "b", " ", "c", "c", "c", " ", "d", "d", "d" >>,
     title |-> << "h", "h", "h", " ", "i", "i", "i", " ", "j", "j", "j", " ", "k", "k", "k" >>]
\* "attachments:qq.epub": metadata Jaccard with "bbb ccc" is 1/3
ROW_meta_third ==
    [itemID |-> 15, parentItemID |-> 5,
     path |-> ATTACHMENTS \o << "q", "q", ".", "e", "p", "u", "b" >>,
     creators |-> << "b", "b", "b" >>,
     title |-> << "d", "d", "d" >>]
\* "attachments:bb cc.pdf": not an EPUB
ROW_pdf ==
    [itemID |-> 16, parentItemID |-> 6,
     path |-> ATTACHMENTS \o << "b", "b", " ", "c", "c", ".", "p", "d", "f" >>,
     creators |-> << "b", "b" >>,
     title |-> << "c", "c" >>]
\* "attachments:bb dd.epub": filename Jaccard with "bb cc" is 1/3
ROW_third ==
    [itemID |-> 17, parentItemID |-> 7,
     path |-> ATTACHMENTS \o << "b", "b", " ", "d", "d", ".", "e", "p", "u", "b" >>,
     creators |-> << >>,
     title |-> << >>]
\* "attachments:the bb dd.epub": a stop word in the filename; the filename
\* score with "bb cc" is 1/3 without the stop word, 1/4 with it
ROW_stop_word ==
    [itemID |-> 18, parentItemID |-> 8,
     path |-> ATTACHMENTS \o << "t", "h", "e", " ", "b", "b", " ", "d", "d", ".", "e", "p", "u", "b" >>,
     creators |-> << >>,
     title |-> << >>]
CatalogRows ==
    { ROW_exact,
      ROW_stop_word,
      ROW_swapped,
      ROW_three_of_ten,
      ROW_meta_three_of_ten,
      ROW_meta_third,
      ROW_pdf,
      ROW_third }
\* The catalogs: at most MaxCatalog distinct rows, in any scan order.
Catalogs ==
    { c \in UNION { [1..n -> CatalogRows] : n \in 0..MaxCatalog } :
        \A i, j \in 1..Len(c) : i # j => c[i] # c[j] }

(***************************************************************************)
(* State.                                                                  *)
(***************************************************************************)
VARIABLES
    \* Position of the running process and the function it was entered by.
    pc, entry,
    \* main(): the inputs it reads and what it computed.
    db_exists, file_exists, first_line, catalog, db_error,
    book_identifier, epub_info, catalog_accessed,
    \* parse_annotation_file: the sections the annotation file was written
    \* from, its text, the sections still to be looked at, and the list
    \* of annotations built so far.
    file_sections, content, sections, parsed,
    \* create_epub_cfi_batch_js: its argument, what the resolver's script
    \* answers for each text of this e-book, and the result of
    \* subprocess.run.
    search_texts, epub, run_result,
    \* How the process ended: the exit status (NotExited while it runs) and
    \* the exception that was raised and not caught ("none" if none).
    exit_code, raised,
    \* The store (zotero.sqlite): the committed rows of the items and the
    \* itemAnnotations tables, and the backup file beside it.
    items, itemAnnotations, backup,
    \* AnnotationImporter: the connection, the rows it has written and not
    \* yet committed, and existing_keys.
    conn, tx_items, tx_annotations, existing_keys,
    \* The state of the random module's generator.
    rng,
    \* import_annotations_to_database: arguments and locals.
    annotations, parent_item_id, highlight_color, sorted_annotations, cfis, idx,
    successful, skipped, failed,
    \* History of the run: its number, the outcome of every
    \* insert_annotation call, the keys of the items table when the
    \* importer was entered, the commit() and rollback() calls made on the
    \* connection, the store as the run found it, and the report of the run
    \* before it.
    run, outcomes, keys_at_start, commits, rollbacks, store_at_start, prev

parser_vars == << file_sections, content, sections, parsed >>

resolver_vars == << search_texts, epub, run_result >>

main_vars ==
    << db_exists, file_exists, first_line, catalog, db_error,
       book_identifier, epub_info, catalog_accessed, exit_code, parser_vars,
       resolver_vars >>

store_vars == << items, itemAnnotations, backup >>

importer_vars == << conn, tx_items, tx_annotations, existing_keys, rng >>

run_vars ==
    << annotations, parent_item_id, highlight_color, sorted_annotations, cfis, idx,
       successful, skipped, failed >>

history_vars ==
    << run, outcomes, keys_at_start, commits, rollbacks, store_at_start, prev >>

vars ==
    << pc, entry, raised, main_vars, store_vars, importer_vars, run_vars,
       history_vars >>

NotExited == "running"
NoIdentifier == << "?" >>
NotSearched == [found |-> FALSE, stage |-> "not searched"]

(***************************************************************************)
(* text_processing.extract_book_identifier: re.search(r"<<(.+?)>>") on the *)
(* stripped first line; the group, stripped, or ValueError.                *)
(***************************************************************************)
LT2 == << "<", "<" >>
GT2 == << ">", ">" >>

\* The places where the regular expression can match: "<<" at i, then at
\* least one character, then ">>" at j.
IdentifierSpans(line) ==
    { ij \in (1..Len(line)) \X (1..Len(line)) :
        /\ ij[2] >= ij[1] + 3
        /\ ij[2] + 1 <= Len(line)
        /\ SubSeq(line, ij[1], ij[1] + 1) = LT2
        /\ SubSeq(line, ij[2], ij[2] + 1) = GT2 }

HasIdentifier(line) == IdentifierSpans(Strip(line)) # {}

\* The leftmost match, its group the shortest possible (.+? is lazy).
extract_book_identifier(line) ==
    LET s == Strip(line)
        spans == IdentifierSpans(s)
        i == CHOOSE i \in { ij[1] : ij \in spans } :
                 \A ij \in spans : i <= ij[1]
        j == CHOOSE j \in { ij[2] : ij \in { kl \in spans : kl[1] = i } } :
                 \A ij \in { kl \in spans : kl[1] = i } : j <= ij[2]
    IN  Strip(SubSeq(s, i + 2, j - 1))

\* First lines of annotation files: "Reading Notes | <<identifier>>Author"
\* for every identifier, and lines without the delimiters.
READING_NOTES ==
    << "N", "o", "t", "e", "s", " ", "|", " " >>
AUTHOR ==
    << "X", "y" >>
HeaderLine(identifier) == READING_NOTES \o LT2 \o identifier \o GT2 \o AUTHOR
FirstLines ==
    { HeaderLine(identifier) : identifier \in Identifiers }
    \cup { READING_NOTES \o AUTHOR, READING_NOTES \o LT2 \o GT2, << >> }

(***************************************************************************)
(* text_processing.parse_annotation_file.                                  *)
(***************************************************************************)
\* "-------------------"
SEPARATOR ==
    << "-", "-", "-", "-", "-", "-", "-", "-", "-", "-", "-", "-", "-",
       "-", "-", "-", "-", "-", "-" >>

\* str.find(sub, from): the first index >= from where sub occurs, 0 if none.
Find(s, sub, from) ==
    LET hits == { i \in from..(Len(s) - Len(sub) + 1) :
                    SubSeq(s, i, i + Len(sub) - 1) = sub }
    IN  IF hits = {} THEN 0 ELSE CHOOSE i \in hits : \A j \in hits : i <= j

\* str.split(sep): the pieces between the occurrences of sep, from the left.
RECURSIVE SplitOn(_, _)
SplitOn(s, sep) ==
    LET i == Find(s, sep, 1)
    IN  IF i = 0 THEN << s >>
        ELSE << SubSeq(s, 1, i - 1) >>
             \o SplitOn(SubSeq(s, i + Len(sep), Len(s)), sep)

\* "\n".join(lines)
RECURSIVE JoinWith(_, _)
JoinWith(pieces, sep) ==
    IF pieces = << >> THEN << >>
    ELSE IF Len(pieces) = 1 THEN pieces[1]
    ELSE pieces[1] \o sep \o JoinWith(Tail(pieces), sep)

\* r"(\d{4}-\d{2}-\d{2}\s+\d{2}:\d{2})\s+\|\s+Page No\.:\s+(\d+)" as the
\* list of its elements; group 1 ends with element 9, group 2 is element 15.
PAGE_NO == << "P", "a", "g", "e", " ", "N", "o", ".", ":" >>
Digits(n) == [kind |-> "digits", n |-> n]
Literal(text) == [kind |-> "literal", text |-> text]
Spaces == [kind |-> "spaces"]
DigitRun == [kind |-> "digit run"]
STAMP_PATTERN ==
    << Digits(4), Literal(<< "-" >>), Digits(2), Literal(<< "-" >>), Digits(2),
       Spaces, Digits(2), Literal(<< ":" >>), Digits(2),
       Spaces, Literal(<< "|" >>), Spaces, Literal(PAGE_NO), Spaces, DigitRun >>
TimestampGroupEnd == 9
PageGroup == 15

\* The first index from i on whose character is not in the class, Len(s)+1
\* if there is none: where a greedy \s+ or \d+ that starts at i stops.
RECURSIVE RunEnd(_, _, _)
RunEnd(s, i, class) ==
    IF i <= Len(s) /\ s[i] \in class THEN RunEnd(s, i + 1, class) ELSE i

\* The index after element k of the pattern matched at i, 0 if it does not
\* match there.  No element can give back characters to the next one (a
\* run of spaces or digits is followed by a character of another class).
ElementEnd(s, i, element) ==
    IF i = 0 THEN 0
    ELSE IF element.kind = "digits"
    THEN IF i + element.n - 1 <= Len(s)
            /\ \A j \in i..(i + element.n - 1) : s[j] \in DIGITS
         THEN i + element.n ELSE 0
    ELSE IF element.kind = "literal"
    THEN IF i + Len(element.text) - 1 <= Len(s)
            /\ SubSeq(s, i, i + Len(element.text) - 1) = element.text
         THEN i + Len(element.text) ELSE 0
    ELSE IF element.kind = "spaces"
    THEN IF RunEnd(s, i, WHITESPACE) > i THEN RunEnd(s, i, WHITESPACE) ELSE 0
    ELSE IF RunEnd(s, i, DIGITS) > i THEN RunEnd(s, i, DIGITS) ELSE 0

\* The index after element last of the pattern, its elements from k on
\* matched one after the other from i; 0 as soon as one does not match.
RECURSIVE MatchFrom(_, _, _, _)
MatchFrom(s, i, k, last) ==
    IF i = 0 \/ k > last THEN i
    ELSE MatchFrom(s, ElementEnd(s, i, STAMP_PATTERN[k]), k + 1, last)

MatchEnd(s, i, k) == MatchFrom(s, i, 1, k)

\* re.search(pattern, s): the leftmost index where the pattern matches, 0
\* if it matches nowhere.
StampSearch(s) ==
    LET hits == { i \in 1..Len(s) : MatchEnd(s, i, Len(STAMP_PATTERN)) # 0 }
    IN  IF hits = {} THEN 0 ELSE CHOOSE i \in hits : \A j \in hits : i <= j

\* match.groups()
StampGroups(s) ==
    LET i == StampSearch(s)
    IN  [timestamp |-> SubSeq(s, i, MatchEnd(s, i, TimestampGroupEnd) - 1),
         page |-> SubSeq(s, MatchEnd(s, i, PageGroup - 1),
                         MatchEnd(s, i, PageGroup) - 1)]

\* The loop over the lines of a section: the lines after the first line in
\* which the pattern is found.
RECURSIVE TextLines(_, _)
TextLines(lines, found_timestamp) ==
    IF lines = << >> THEN << >>
    ELSE IF found_timestamp
    THEN << Head(lines) >> \o TextLines(Tail(lines), TRUE)
    ELSE TextLines(Tail(lines), StampSearch(Head(lines)) # 0)

\* The text taken from the end of the match in the section instead of from
\* the line after the matching line.
SectionText_after_match(section) ==
    Strip(SubSeq(section,
                 MatchEnd(section, StampSearch(section), Len(STAMP_PATTERN)),
                 Len(section)))

\* text = "\n".join(text_lines).strip()
SectionText(section) ==
    Strip(JoinWith(TextLines(SplitOn(section, << NEWLINE >>), FALSE),
                   << NEWLINE >>))

\* The body of the loop over the sections: the annotations the section adds
\* to the list, none or one.
ParsedOfSection(raw_section) ==
    LET section == Strip(raw_section)
        groups == StampGroups(section)
        text == SectionText(section)
    IN  IF section = << >> THEN << >>
        ELSE IF StampSearch(section) = 0 THEN << >>
        ELSE IF text = << >> THEN << >>
        ELSE << [timestamp |-> groups.timestamp,
                 page |-> groups.page,
                 text |-> text] >>

(***************************************************************************)
(* Inputs of the parser: the sections a file is written from.              *)
(***************************************************************************)
\* Largest number of sections in an annotation file.
MaxSections == 3

\* white space only: '\n \n'
SECTION_blank ==
    << "\n", " ", "\n" >>
\* the stamp line and one line of text: '\n2024-01-05 10:30 | Page No.: 42\nA short highlight.\n'
SECTION_plain ==
    << "\n", "2", "0", "2", "4", "-", "0", "1", "-", "0", "5", " ", "1",
       "0", ":", "3", "0", " ", "|", " ", "P", "a", "g", "e", " ", "N",
       "o", ".", ":", " ", "4", "2", "\n", "A", " ", "s", "h", "o", "r",
       "t", " ", "h", "i", "g", "h", "l", "i", "g", "h", "t", ".", "\n" >>
\* a stamp line and white space after it: '2024-01-05 10:30 | Page No.: 42\n \n '
SECTION_blank_text ==
    << "2", "0", "2", "4", "-", "0", "1", "-", "0", "5", " ", "1", "0",
       ":", "3", "0", " ", "|", " ", "P", "a", "g", "e", " ", "N", "o",
       ".", ":", " ", "4", "2", "\n", " ", "\n", " " >>
\* the text on the stamp line itself: '2024-01-05 10:30 | Page No.: 42 b'
SECTION_same_line ==
    << "2", "0", "2", "4", "-", "0", "1", "-", "0", "5", " ", "1", "0",
       ":", "3", "0", " ", "|", " ", "P", "a", "g", "e", " ", "N", "o",
       ".", ":", " ", "4", "2", " ", "b" >>
\* the first line of the file: no stamp: 'Notes | <<bb cc>>Xy\n'
SECTION_header ==
    << "N", "o", "t", "e", "s", " ", "|", " ", "<", "<", "b", "b", " ",
       "c", "c", ">", ">", "X", "y", "\n" >>
\* a line before the stamp line, runs of spaces in it, three lines after it: 'b\n2024-02-06  11:45 |  Page No.:  7\nb\n\nb'
SECTION_preamble ==
    << "b", "\n", "2", "0", "2", "4", "-", "0", "2", "-", "0", "6", " ",
       " ", "1", "1", ":", "4", "5", " ", "|", " ", " ", "P", "a", "g",
       "e", " ", "N", "o", ".", ":", " ", " ", "7", "\n", "b", "\n", "\n",
       "b" >>
\* the stamp broken over two lines: no line holds it: '2024-01-05\n10:30 | Page No.: 3\nb'
SECTION_split_stamp ==
    << "2", "0", "2", "4", "-", "0", "1", "-", "0", "5", "\n", "1", "0",
       ":", "3", "0", " ", "|", " ", "P", "a", "g", "e", " ", "N", "o",
       ".", ":", " ", "3", "\n", "b" >>
\* two stamp lines: '2024-01-05 10:30 | Page No.: 42\n2024-02-06  11:45 |  Page No.:  7\nb'
SECTION_two_stamps ==
    << "2", "0", "2", "4", "-", "0", "1", "-", "0", "5", " ", "1", "0",
       ":", "3", "0", " ", "|", " ", "P", "a", "g", "e", " ", "N", "o",
       ".", ":", " ", "4", "2", "\n", "2", "0", "2", "4", "-", "0", "2",
       "-", "0", "6", " ", " ", "1", "1", ":", "4", "5", " ", "|", " ",
       " ", "P", "a", "g", "e", " ", "N", "o", ".", ":", " ", " ", "7",
       "\n", "b" >>
\* a stamp broken over two lines, then a stamp line: '2024-01-05\n10:30 | Page No.: 3\n2024-01-05 10:30 | Page No.: 42\nb'
SECTION_split_then_stamp ==
    << "2", "0", "2", "4", "-", "0", "1", "-", "0", "5", "\n", "1", "0",
       ":", "3", "0", " ", "|", " ", "P", "a", "g", "e", " ", "N", "o",
       ".", ":", " ", "3", "\n", "2", "0", "2", "4", "-", "0", "1", "-",
       "0", "5", " ", "1", "0", ":", "3", "0", " ", "|", " ", "P", "a",
       "g", "e", " ", "N", "o", ".", ":", " ", "4", "2", "\n", "b" >>
SectionTexts ==
    { SECTION_blank,
      SECTION_plain,
      SECTION_blank_text,
      SECTION_same_line,
      SECTION_header,
      SECTION_preamble,
      SECTION_split_stamp,
      SECTION_two_stamps,
      SECTION_split_then_stamp }

\* The files: one to MaxSections sections with the separator between them.
SectionLists == UNION { [1..n -> SectionTexts] : n \in 1..MaxSections }

(***************************************************************************)
(* models.EPUBInfo: the attributes an instance has.                        *)
(***************************************************************************)
EPUBInfoAttributes == { "item_id", "parent_id", "filename" }

(***************************************************************************)
(* parse_annotation_file as a process: read and split, one step for each   *)
(* section, return.                                                        *)
(***************************************************************************)
ParseEntry == "parse_annotation_file"

\* No file is being parsed.
ParserIdle ==
    /\ file_sections = << >>
    /\ content = << >>
    /\ sections = << >>
    /\ parsed = << >>

\* content = f.read(); sections = content.split("-------------------")
ParseRead ==
    /\ entry = ParseEntry /\ pc = "read"
    /\ sections' = SplitOn(content, SEPARATOR)
    /\ pc' = "sections"
    /\ UNCHANGED << entry, raised, file_sections, content, parsed >>
    /\ UNCHANGED << db_exists, file_exists, first_line, catalog, db_error,
                    book_identifier, epub_info, catalog_accessed, exit_code >>
    /\ UNCHANGED << resolver_vars, store_vars, importer_vars, run_vars,
                    history_vars >>

\* One turn of "for section in sections".
ParseSection ==
    /\ entry = ParseEntry /\ pc = "sections" /\ sections # << >>
    /\ parsed' = parsed \o ParsedOfSection(Head(sections))
    /\ sections' = Tail(sections)
    /\ UNCHANGED << pc, entry, raised, file_sections, content >>
    /\ UNCHANGED << db_exists, file_exists, first_line, catalog, db_error,
                    book_identifier, epub_info, catalog_accessed, exit_code >>
    /\ UNCHANGED << resolver_vars, store_vars, importer_vars, run_vars,
                    history_vars >>

\* return annotations
ParseReturn ==
    /\ entry = ParseEntry /\ pc = "sections" /\ sections = << >>
    /\ pc' = "done"
    /\ UNCHANGED << entry, raised, parser_vars >>
    /\ UNCHANGED << db_exists, file_exists, first_line, catalog, db_error,
                    book_identifier, epub_info, catalog_accessed, exit_code >>
    /\ UNCHANGED << resolver_vars, store_vars, importer_vars, run_vars,
                    history_vars >>

(***************************************************************************)
(* main.main                                                               *)
(***************************************************************************)
\* sys.exit with the status of success.
Exit_with_success(code) ==
    /\ pc' = "exited"
    /\ exit_code' = 0

\* sys.exit(code)
Exit(code) ==
    /\ pc' = "exited"
    /\ exit_code' = code

\* An exception nobody catches ends the process with a traceback and
\* status 1.
Uncaught(exception) ==
    /\ pc' = "exited"
    /\ exit_code' = 1
    /\ raised' = exception

\* main.py:87-96: the database and the annotation file must exist.
MainCheckPaths ==
    /\ entry = "main" /\ pc = "check_paths"
    /\ IF ~db_exists \/ ~file_exists
       THEN Exit(1)
       ELSE pc' = "extract" /\ UNCHANGED exit_code
    /\ UNCHANGED << entry, raised, db_exists, file_exists, first_line, catalog,
                    db_error, book_identifier, epub_info, catalog_accessed >>
    /\ UNCHANGED << parser_vars, resolver_vars, store_vars, importer_vars,
                    run_vars, history_vars >>

\* main.py:98-100: extract_book_identifier, whose ValueError is not caught.
MainExtract ==
    /\ entry = "main" /\ pc = "extract"
    /\ IF HasIdentifier(first_line)
       THEN /\ book_identifier' = extract_book_identifier(first_line)
            /\ pc' = "find"
            /\ UNCHANGED << exit_code, raised >>
       ELSE /\ Uncaught("ValueError")
            /\ UNCHANGED book_identifier
    /\ UNCHANGED << entry, db_exists, file_exists, first_line, catalog,
                    db_error, epub_info, catalog_accessed >>
    /\ UNCHANGED << parser_vars, resolver_vars, store_vars, importer_vars,
                    run_vars, history_vars >>

\* main.py:102-113: find_epub_in_database; "database is locked" and no
\* match exit with status 1, any other OperationalError is raised again.
MainFind ==
    /\ entry = "main" /\ pc = "find"
    /\ catalog_accessed' = TRUE
    /\ IF db_error = "locked"
       THEN Exit(1) /\ UNCHANGED << epub_info, raised >>
       ELSE IF db_error = "other"
       THEN Uncaught("OperationalError") /\ UNCHANGED epub_info
       ELSE /\ epub_info' = find_epub_in_database(catalog, book_identifier)
            /\ IF epub_info'.found
               THEN pc' = "confidence" /\ UNCHANGED exit_code
               ELSE Exit(1)
            /\ UNCHANGED raised
    /\ UNCHANGED << entry, db_exists, file_exists, first_line, catalog,
                    db_error, book_identifier >>
    /\ UNCHANGED << parser_vars, resolver_vars, store_vars, importer_vars,
                    run_vars, history_vars >>

\* main.py:115-117: epub_info.confidence is read; EPUBInfo has no such
\* attribute, so the read raises AttributeError, which nobody catches.
\* Nothing of main.py after line 117 is reached.
MainConfidence ==
    /\ entry = "main" /\ pc = "confidence"
    /\ IF "confidence" \in EPUBInfoAttributes
       THEN pc' = "confirm" /\ UNCHANGED << exit_code, raised >>
       ELSE Uncaught("AttributeError")
    /\ UNCHANGED << entry, db_exists, file_exists, first_line, catalog,
                    db_error, book_identifier, epub_info, catalog_accessed >>
    /\ UNCHANGED << parser_vars, resolver_vars, store_vars, importer_vars,
                    run_vars, history_vars >>

(***************************************************************************)
(* Annotations (models.Annotation) and the pure helpers of the importer.   *)
(* A timestamp "YYYY-MM-DD HH:MM" is the tuple of its five numbers, a page *)
(* is a string, a text is an atom.                                         *)
(***************************************************************************)
DIGIT_CHARS == << "0", "1", "2", "3", "4", "5", "6", "7", "8", "9" >>

DigitValue(c) == (CHOOSE d \in 1..Len(DIGIT_CHARS) : DIGIT_CHARS[d] = c) - 1

\* int(s) for a string of digits.
RECURSIVE ParseInt(_)
ParseInt(s) ==
    IF s = << >> THEN 0
    ELSE 10 * ParseInt(SubSeq(s, 1, Len(s) - 1)) + DigitValue(s[Len(s)])

\* try: int(page) / except (ValueError, TypeError): 0
IntOrZero(page) == IF IsDigitStr(page) THEN ParseInt(page) ELSE 0

\* str(n) for n >= 0.
RECURSIVE FormatInt(_)
FormatInt(n) ==
    IF n < 10 THEN << DIGIT_CHARS[n + 1] >>
    ELSE Append(FormatInt(n \div 10), DIGIT_CHARS[(n % 10) + 1])

\* f"{n:0<width>d}": zeros on the left up to width, never cut.
ZeroPad(n, width) ==
    LET digits == FormatInt(n)
    IN  IF Len(digits) >= width THEN digits
        ELSE [i \in 1..width |->
                IF i <= width - Len(digits) THEN "0"
                ELSE digits[i - (width - Len(digits))]]

\* import_annotations._create_sort_index_from_page
create_sort_index_from_page(page) ==
    ZeroPad(0, 5) \o << "|" >> \o ZeroPad(IntOrZero(page) * 1000, 8)

\* import_annotations._create_position_json: the JSON text, as the object
\* it encodes.
create_position_json(cfi) ==
    [type |-> "FragmentSelector",
     conformsTo |-> "http://www.idpf.org/epub/linking/cfi/epub-cfi.html",
     value |-> cfi]

\* The value the resolver gives for a text it did not find: None, which
\* the test "if cfi" does not tell from the empty string.
None == << >>

\* import_annotations.py:69-77: f"epubcfi(/6/{(approx_spine + 1) * 2}!/4/2:0)"
Max(a, b) == IF a >= b THEN a ELSE b
Min(a, b) == IF a <= b THEN a ELSE b
FallbackCfi(page) ==
    << "epubcfi(/6/", (Max(0, IntOrZero(page) \div 10) + 1) * 2, "!/4/2:0)" >>

\* A location the resolver found.
ResolvedCfi == << "epubcfi(/6/", 14, "!/4/2[id]/44,/1:0,/5:42)" >>

\* datetime.strptime(timestamp, "%Y-%m-%d %H:%M") succeeds.
IsLeapYear(y) == (y % 4 = 0 /\ y % 100 # 0) \/ y % 400 = 0
DaysInMonth(y, m) ==
    IF m = 2 THEN (IF IsLeapYear(y) THEN 29 ELSE 28)
    ELSE IF m \in { 4, 6, 9, 11 } THEN 30 ELSE 31
ValidTimestamp(t) ==
    /\ t[1] >= 1
    /\ t[2] \in 1..12
    /\ t[3] >= 1 /\ t[3] <= DaysInMonth(t[1], t[2])
    /\ t[4] \in 0..23
    /\ t[5] \in 0..59

\* dt.strftime("%Y-%m-%d %H:%M:%S"): the same instant with its seconds.
DateAdded(t) == << t[1], t[2], t[3], t[4], t[5], 0 >>

\* sorted(annotations, key=lambda a: int(a.page) if a.page.isdigit() else 0)
PageKey(a) == IF IsDigitStr(a.page) THEN ParseInt(a.page) ELSE 0

RECURSIVE InsertSorted(_, _)
InsertSorted(sorted, a) ==
    IF sorted = << >> THEN << a >>
    ELSE IF PageKey(sorted[Len(sorted)]) <= PageKey(a) THEN Append(sorted, a)
    ELSE Append(InsertSorted(SubSeq(sorted, 1, Len(sorted) - 1), a),
                sorted[Len(sorted)])

\* The stable sort, built by inserting the elements in their order.
RECURSIVE SortedByPage(_)
SortedByPage(seq) ==
    IF seq = << >> THEN << >>
    ELSE InsertSorted(SortedByPage(SubSeq(seq, 1, Len(seq) - 1)), seq[Len(seq)])

(***************************************************************************)
(* Key generation: database.generate_zotero_key, generate_unique_key.      *)
(* The random module is a deterministic generator seeded when the process  *)
(* starts; its state is the number of draws made since an origin, and      *)
(* RandomBelow is its stream.  The stream repeats each run of eight draws  *)
(* once, so that two keys generated one after the other are equal.         *)
(***************************************************************************)
RandomBelow(state, n) == ((state \div 16) * 7 + (state % 8) * 3) % n

\* random.choice(seq)
RandomChoice(seq, state) == seq[RandomBelow(state, Len(seq)) + 1]

\* "".join(random.choice(ZOTERO_KEY_CHARS) for _ in range(ZOTERO_KEY_LENGTH))
generate_zotero_key(state) ==
    [key |-> [i \in 1..ZOTERO_KEY_LENGTH |->
                RandomChoice(ZOTERO_KEY_CHARS, state + i - 1)],
     rng |-> state + ZOTERO_KEY_LENGTH]

\* generate_unique_key without the test "key not in existing_keys".
generate_unique_key_unchecked(existing, state) ==
    [key |-> generate_zotero_key(state).key,
     existing_keys |-> existing \cup { generate_zotero_key(state).key },
     rng |-> generate_zotero_key(state).rng]

\* while True: key = generate_zotero_key(); if key not in existing_keys:
\* existing_keys.add(key); return key
RECURSIVE generate_unique_key(_, _)
generate_unique_key(existing, state) ==
    LET g == generate_zotero_key(state)
    IN  IF g.key \notin existing
        THEN [key |-> g.key, existing_keys |-> existing \cup { g.key },
              rng |-> g.rng]
        ELSE generate_unique_key(existing, g.rng)

(***************************************************************************)
(* Inputs of the importer.                                                 *)
(***************************************************************************)
\* Largest number of annotations in one run.
MaxRecords == 2
\* Number of runs against the same store.
MaxRuns == 2

\* "2024-01-05 10:30", "2024-01-05 10:31", and "2024-13-05 10:30", which
\* the parser's pattern accepts and strptime rejects.
TS_1030 == << 2024, 1, 5, 10, 30 >>
TS_1031 == << 2024, 1, 5, 10, 31 >>
TS_MONTH13 == << 2024, 13, 5, 10, 30 >>

ANN_A == [timestamp |-> TS_1030, page |-> << "2" >>, text |-> "x"]
\* A page of six digits: the regular expression of the parser takes any
\* run of digits after "Page No.:".
ANN_B == [timestamp |-> TS_1030, page |-> << "1", "0", "0", "0", "0", "0" >>, text |-> "y"]
ANN_C == [timestamp |-> TS_1031, page |-> << "2" >>, text |-> "x"]
ANN_BAD == [timestamp |-> TS_MONTH13, page |-> << "3" >>, text |-> "z"]
Annotations == { ANN_A, ANN_B, ANN_C, ANN_BAD }

\* The annotation lists a run can be given.
AnnotationLists == UNION { [1..n -> Annotations] : n \in 0..MaxRecords }

\* The answers of create_epub_cfi_batch_js for n texts: any list of at most
\* n locations or None (the parsed output of the subprocess decides the
\* length; every failure gives n times None).
CfiLists(n) == UNION { [1..k -> { None, ResolvedCfi }] : k \in 0..n }

\* The attachment the annotations are imported under (epub_info.item_id).
ParentIds == { 11 }

\* The seeds of the random generator.
Seeds == { 0, 16 }

\* The items table before the first run: the book, and its attachment,
\* whose key is the first key the generator gives from seed 0.
InitialItems ==
    { [itemID |-> 1, itemTypeID |-> 7, dateAdded |-> DateAdded(TS_1030),
       libraryID |-> LIBRARY_ID,
       key |-> << "A", "B", "C", "D", "2", "3", "4", "5" >>],
      [itemID |-> 11, itemTypeID |-> 3, dateAdded |-> DateAdded(TS_1030),
       libraryID |-> LIBRARY_ID, key |-> generate_zotero_key(0).key] }

\* The backup file: absent, a complete copy of the store, or what a copy
\* that failed left behind.
NoBackup == [state |-> "absent", items |-> {}, itemAnnotations |-> {}]
PartialBackup == [state |-> "partial", items |-> {}, itemAnnotations |-> {}]
\* A copy that leaves a complete backup file of an earlier import alone.
CompleteBackup_first_kept(its_items, its_annotations) ==
    IF backup.state = "complete" THEN backup
    ELSE [state |-> "complete", items |-> its_items,
          itemAnnotations |-> its_annotations]

CompleteBackup(its_items, its_annotations) ==
    [state |-> "complete", items |-> its_items,
     itemAnnotations |-> its_annotations]

\* The report of the run before the first.
NoReport ==
    [entry |-> "none", annotations |-> << >>, parent_item_id |-> 0,
     raised |-> "none", successful |-> 0, skipped |-> 0, failed |-> 0,
     processed |-> 0, faults |-> FALSE]

(***************************************************************************)
(* The connection's view of the tables: committed rows and its own         *)
(* uncommitted ones.                                                       *)
(***************************************************************************)
ViewItems == items \cup tx_items

\* A view without the connection's own uncommitted rows.
ViewAnnotations_committed == itemAnnotations

ViewAnnotations == itemAnnotations \cup tx_annotations

\* cursor.lastrowid after INSERT INTO items: the largest itemID plus one.
NextItemId ==
    1 + (CHOOSE m \in { r.itemID : r \in ViewItems } :
            \A r \in ViewItems : r.itemID <= m)

\* A query that raised taken for a duplicate found.
annotation_exists_duplicate_on_failure(annotation, parent, query_fails) ==
    IF ~ValidTimestamp(annotation.timestamp) THEN FALSE
    ELSE IF query_fails THEN TRUE
    ELSE \E a \in ViewAnnotations :
            /\ a.parentItemID = parent
            /\ a.text = annotation.text
            /\ \E i \in ViewItems :
                  i.itemID = a.itemID /\ i.dateAdded = DateAdded(annotation.timestamp)

\* database.AnnotationImporter.annotation_exists; query_fails says that the
\* SELECT raised.
annotation_exists(annotation, parent, query_fails) ==
    IF ~ValidTimestamp(annotation.timestamp) \/ query_fails
    THEN FALSE
    ELSE \E a \in ViewAnnotations :
            /\ a.parentItemID = parent
            /\ a.text = annotation.text
            /\ \E i \in ViewItems :
                  i.itemID = a.itemID /\ i.dateAdded = DateAdded(annotation.timestamp)

\* The parameters insert_annotation declares after self, and the
\* arguments of the two callers.
InsertAnnotationParameters ==
    << "annotation", "parent_item_id", "position_json", "sort_index" >>
ImportCallArguments ==
    << "annotation", "parent_item_id", "position_json", "sort_index",
       "highlight_color" >>
DirectCallArguments ==
    << "annotation", "parent_item_id", "position_json", "sort_index" >>

\* The INSERT of insert_annotation that raises, if any.
InsertFaults == { "none", "items", "itemAnnotations" }

\* zip(sorted_annotations, cfis)
ZipLength == Min(Len(sorted_annotations), Len(cfis))

(***************************************************************************)
(* cfi_generator_js.create_epub_cfi_batch_js.  The script it runs           *)
(* (epub-cfi-generator.js) is modelled by its contract: for a batch it      *)
(* prints a JSON list with one item for each input text, in input order.    *)
(***************************************************************************)
\* The texts searched for.
Texts == { "x", "y", "z" }
TextLists == UNION { [1..n -> Texts] : n \in 0..MaxRecords }

\* The items the script prints: the location found, a null location, an
\* error.
\* has_error: the item has the key "error"; null_cfi: it has no "cfi" or a
\* null one.
FoundItem == [has_error |-> FALSE, null_cfi |-> FALSE, cfi |-> ResolvedCfi]
NullItem == [has_error |-> FALSE, null_cfi |-> TRUE, cfi |-> None]
ErrorItem == [has_error |-> TRUE, null_cfi |-> TRUE, cfi |-> None]
Items == { FoundItem, NullItem, ErrorItem }

\* What the script answers for each text of an e-book.
Epubs == [Texts -> Items]

\* The script's standard output for a batch of texts.
ScriptOutput(book, texts) == [i \in 1..Len(texts) |-> book[texts[i]]]

\* What subprocess.run gives: the process ended (return code, output
\* parseable as JSON or not), subprocess.TimeoutExpired, or another
\* exception (node is not installed).
Completed(returncode, parseable, output) ==
    [kind |-> "completed", returncode |-> returncode,
     parseable |-> parseable, output |-> output]
TimeoutExpired ==
    [kind |-> "TimeoutExpired", returncode |-> 0, parseable |-> FALSE,
     output |-> << >>]
OtherException ==
    [kind |-> "Exception", returncode |-> 0, parseable |-> FALSE,
     output |-> << >>]
NotRun ==
    [kind |-> "not run", returncode |-> 0, parseable |-> FALSE,
     output |-> << >>]
SubprocessResults(book, texts) ==
    { Completed(0, TRUE, ScriptOutput(book, texts)),
      Completed(0, FALSE, << >>),
      Completed(1, FALSE, << >>),
      Completed(1, TRUE, ScriptOutput(book, texts)),
      TimeoutExpired,
      OtherException }

\* [None] * len(search_texts)
Nones(texts) == [i \in 1..Len(texts) |-> None]

\* The function with "return []" on the failure paths.
create_epub_cfi_batch_js_empty_on_failure(texts, result) ==
    IF result.kind = "completed" /\ result.returncode = 0 /\ result.parseable
    THEN [i \in 1..Len(result.output) |->
            IF result.output[i].has_error \/ result.output[i].null_cfi
            THEN None
            ELSE result.output[i].cfi]
    ELSE << >>

\* cfi_generator_js.py:43-89, given what subprocess.run gave.
create_epub_cfi_batch_js(texts, result) ==
    IF result.kind # "completed" THEN Nones(texts)
    ELSE IF result.returncode # 0 THEN Nones(texts)
    ELSE IF ~result.parseable THEN Nones(texts)
    ELSE [i \in 1..Len(result.output) |->
            IF result.output[i].has_error \/ result.output[i].null_cfi
            THEN None
            ELSE result.output[i].cfi]

\* cfi_generator_js.create_epub_cfi_js: results[0] if results else None
create_epub_cfi_js(text, result) ==
    LET results == create_epub_cfi_batch_js(<< text >>, result)
    IN  IF results # << >> THEN results[1] ELSE None

ResolveEntry == "create_epub_cfi_batch_js"

\* No resolver call is being made.
ResolverIdle ==
    /\ search_texts = << >>
    /\ epub = [t \in Texts |-> NullItem]
    /\ run_result = NotRun

\* result = subprocess.run([...], timeout=60)
ResolverRun ==
    /\ entry = ResolveEntry /\ pc = "run"
    /\ run_result' \in SubprocessResults(epub, search_texts)
    /\ pc' = "ran"
    /\ UNCHANGED << entry, raised, search_texts, epub, parser_vars >>
    /\ UNCHANGED << db_exists, file_exists, first_line, catalog, db_error,
                    book_identifier, epub_info, catalog_accessed, exit_code >>
    /\ UNCHANGED << store_vars, importer_vars, run_vars, history_vars >>

\* The return statement reached.
ResolverReturn ==
    /\ entry = ResolveEntry /\ pc = "ran"
    /\ cfis' = create_epub_cfi_batch_js(search_texts, run_result)
    /\ pc' = "done"
    /\ UNCHANGED << entry, raised, resolver_vars, parser_vars >>
    /\ UNCHANGED << db_exists, file_exists, first_line, catalog, db_error,
                    book_identifier, epub_info, catalog_accessed, exit_code >>
    /\ UNCHANGED << store_vars, importer_vars, annotations, parent_item_id, highlight_color,
                    sorted_annotations, idx, successful, skipped, failed,
                    history_vars >>

(***************************************************************************)
(* A run: import_annotations_to_database, or a caller that drives an       *)
(* AnnotationImporter itself and passes insert_annotation the four         *)
(* arguments it declares, with the position and the order key built by the *)
(* helpers of import_annotations.                                          *)
(***************************************************************************)
ImportEntry == "import_annotations_to_database"
DirectEntry == "AnnotationImporter"

\* The importer entered without the backup.
FirstStep_without_backup(entry_name) == "enter"

\* Where a run starts: import_annotations_to_database with the backup, the
\* direct caller with the with statement.
FirstStep(entry_name) ==
    IF entry_name = ImportEntry THEN "backup" ELSE "enter"

\* The highlight colors of the command line: the values of COLOR_MAP, of
\* which "yellow", the default of --highlight-color, is one.
Colors == { DEFAULT_HIGHLIGHT_COLOR, "#ff6666" }

\* What a run starts from: the entry, the annotation list, the parent, the
\* highlight color chosen for the import (main.py:162), the seed, and for
\* the direct caller the locations it passes.
RunInputs ==
    { in \in [entry : { ImportEntry, DirectEntry },
              annotations : AnnotationLists,
              parent_item_id : ParentIds,
              highlight_color : Colors,
              seed : Seeds,
              cfis : CfiLists(MaxRecords)] :
        IF in.entry = ImportEntry
        THEN in.cfis = << >>
        ELSE Len(in.cfis) = Len(in.annotations) }

\* The store before the first run: without annotations, or with the
\* annotation of ANN_A already imported under attachment 11.
InitialStores ==
    { [items |-> InitialItems, itemAnnotations |-> {}],
      [items |-> InitialItems \cup
                 { [itemID |-> 12, itemTypeID |-> ANNOTATION_ITEM_TYPE_ID,
                    dateAdded |-> DateAdded(TS_1030), libraryID |-> LIBRARY_ID,
                    key |-> << "Z", "Z", "Z", "Z", "9", "9", "9", "9" >>] },
       itemAnnotations |->
                 { [itemID |-> 12, parentItemID |-> 11, type |-> HIGHLIGHT_TYPE,
                    text |-> "x", comment |-> "", color |-> DEFAULT_HIGHLIGHT_COLOR,
                    pageLabel |-> "",
                    sortIndex |-> create_sort_index_from_page(<< "2" >>),
                    position |-> create_position_json(ResolvedCfi),
                    isExternal |-> 0] }] }

\* import_annotations.py:31-33 and database.create_database_backup:
\* shutil.copy2 of the store to <db_path>.pre-import-backup.  When the copy
\* raises, the exception leaves import_annotations_to_database; the backup
\* file is then the old one or a partial one.
Backup ==
    /\ entry = ImportEntry /\ pc = "backup"
    /\ \/ /\ backup' = CompleteBackup(items, itemAnnotations)
          /\ pc' = "resolve"
          /\ UNCHANGED raised
       \/ /\ backup' \in { backup, PartialBackup }
          /\ raised' = "OSError"
          /\ pc' = "done"
    /\ UNCHANGED << entry, main_vars, items, itemAnnotations, importer_vars,
                    run_vars, history_vars >>

\* import_annotations.py:35-48: the stable sort by page and the one batched
\* call of the resolver.
Resolve ==
    /\ entry = ImportEntry /\ pc = "resolve"
    /\ sorted_annotations' = SortedByPage(annotations)
    /\ cfis' \in CfiLists(Len(annotations))
    /\ pc' = "enter"
    /\ UNCHANGED << entry, raised, main_vars, store_vars, importer_vars,
                    annotations, parent_item_id, highlight_color, idx, successful, skipped,
                    failed, history_vars >>

\* AnnotationImporter.__enter__: connect, and load existing_keys from the
\* items table.  When it raises, __exit__ is not called.
Enter ==
    /\ pc = "enter"
    /\ \/ /\ conn' = "open"
          /\ existing_keys' = { r.key : r \in items }
          /\ keys_at_start' = { r.key : r \in items }
          /\ pc' = "loop"
          /\ UNCHANGED raised
       \/ /\ raised' = "OperationalError"
          /\ pc' = "done"
          /\ UNCHANGED << conn, existing_keys, keys_at_start >>
    /\ UNCHANGED << entry, main_vars, store_vars, tx_items, tx_annotations, rng,
                    run_vars, run, outcomes, commits, rollbacks,
                    store_at_start, prev >>

\* The except handler without the rollback: what was written stays in the
\* transaction.
RolledBack_nothing(uncommitted) == uncommitted

\* self.conn.rollback(): the rows written and not yet committed, after it.
RolledBack(uncommitted) == {}

\* AnnotationImporter.insert_annotation (database.py:299-361) and the tally
\* of its result (import_annotations.py:93-100).  query_fails: the SELECT of
\* annotation_exists raises; insert_fault: which INSERT raises.
InsertAnnotation(annotation, position_json, sort_index, query_fails, insert_fault) ==
    IF annotation_exists(annotation, parent_item_id, query_fails)
    THEN \* return False
         /\ skipped' = skipped + 1
         /\ outcomes' = Append(outcomes,
                [annotation |-> annotation, result |-> "Skipped",
                 key |-> << >>,
                 query_failed |->
                     ValidTimestamp(annotation.timestamp) /\ query_fails,
                 insert_failed |-> FALSE, raised_at |-> "none"])
         /\ UNCHANGED << successful, failed, tx_items, tx_annotations,
                         existing_keys, rng, rollbacks >>
    ELSE LET minted == generate_unique_key(existing_keys, rng)
             query_raised == ValidTimestamp(annotation.timestamp) /\ query_fails
             raised_at == IF ~ValidTimestamp(annotation.timestamp)
                          THEN "strptime" ELSE insert_fault
             item_id == NextItemId
             item_row ==
                 [itemID |-> item_id, itemTypeID |-> ANNOTATION_ITEM_TYPE_ID,
                  dateAdded |-> DateAdded(annotation.timestamp),
                  libraryID |-> LIBRARY_ID, key |-> minted.key]
             annotation_row ==
                 [itemID |-> item_id, parentItemID |-> parent_item_id,
                  type |-> HIGHLIGHT_TYPE, text |-> annotation.text,
                  comment |-> "", color |-> DEFAULT_HIGHLIGHT_COLOR,
                  pageLabel |-> "", sortIndex |-> sort_index,
                  position |-> position_json, isExternal |-> 0]
         IN  /\ existing_keys' = minted.existing_keys
             /\ rng' = minted.rng
             /\ IF ~ValidTimestamp(annotation.timestamp) \/ insert_fault # "none"
                THEN \* except Exception: self.conn.rollback(); return None
                     \* (the row of the items table is written when it is
                     \* the second INSERT that raises)
                     /\ tx_items' =
                            RolledBack(IF raised_at = "itemAnnotations"
                                       THEN tx_items \cup { item_row }
                                       ELSE tx_items)
                     /\ tx_annotations' = RolledBack(tx_annotations)
                     /\ rollbacks' = rollbacks + 1
                     /\ failed' = failed + 1
                     /\ outcomes' = Append(outcomes,
                            [annotation |-> annotation, result |-> "Failed",
                             key |-> minted.key, query_failed |-> query_raised,
                             insert_failed |->
                                 raised_at \in { "items", "itemAnnotations" },
                             raised_at |-> raised_at])
                     /\ UNCHANGED << successful, skipped >>
                ELSE \* return True
                     /\ tx_items' = tx_items \cup { item_row }
                     /\ tx_annotations' = tx_annotations \cup { annotation_row }
                     /\ successful' = successful + 1
                     /\ outcomes' = Append(outcomes,
                            [annotation |-> annotation, result |-> "Inserted",
                             key |-> minted.key, query_failed |-> query_raised,
                             insert_failed |->
                                 raised_at \in { "items", "itemAnnotations" },
                             raised_at |-> raised_at])
                     /\ UNCHANGED << skipped, failed, rollbacks >>

\* import_annotations.py:55-100: one turn of the loop over
\* zip(sorted_annotations, cfis).  The call of insert_annotation raises
\* TypeError when the arguments are not as many as the parameters; the
\* exception is raised in the loop, outside insert_annotation's try.
ProcessRecord ==
    /\ pc = "loop" /\ idx <= ZipLength
    /\ LET annotation == sorted_annotations[idx]
           cfi == IF cfis[idx] # None THEN cfis[idx]
                  ELSE FallbackCfi(annotation.page)
           position_json == create_position_json(cfi)
           sort_index == create_sort_index_from_page(annotation.page)
           arguments == IF entry = ImportEntry THEN ImportCallArguments
                        ELSE DirectCallArguments
       IN  IF Len(arguments) # Len(InsertAnnotationParameters)
           THEN /\ raised' = "TypeError"
                /\ pc' = "raising"
                /\ UNCHANGED << tx_items, tx_annotations, existing_keys, rng,
                                idx, successful, skipped, failed, outcomes,
                                rollbacks >>
           ELSE /\ \E query_fails \in BOOLEAN :
                   \E insert_fault \in InsertFaults :
                      InsertAnnotation(annotation, position_json, sort_index,
                                       query_fails, insert_fault)
                /\ idx' = idx + 1
                /\ UNCHANGED << pc, raised >>
    /\ UNCHANGED << entry, main_vars, store_vars, conn, annotations,
                    parent_item_id, highlight_color, sorted_annotations, cfis, run,
                    keys_at_start, commits, store_at_start, prev >>

\* AnnotationImporter.__exit__ with exc_type None: commit and close; the
\* function returns its three counts.
ExitCommit ==
    /\ pc = "loop" /\ idx > ZipLength
    /\ items' = items \cup tx_items
    /\ itemAnnotations' = itemAnnotations \cup tx_annotations
    /\ tx_items' = {}
    /\ tx_annotations' = {}
    /\ commits' = commits + 1
    /\ conn' = "closed"
    /\ pc' = "done"
    /\ UNCHANGED << entry, raised, main_vars, backup, existing_keys, rng,
                    run_vars, run, outcomes, keys_at_start, rollbacks,
                    store_at_start, prev >>

\* AnnotationImporter.__exit__ with an exception: rollback and close; the
\* exception goes on to the caller.
ExitRollback ==
    /\ pc = "raising"
    /\ tx_items' = {}
    /\ tx_annotations' = {}
    /\ rollbacks' = rollbacks + 1
    /\ conn' = "closed"
    /\ pc' = "done"
    /\ UNCHANGED << entry, raised, main_vars, store_vars, existing_keys, rng,
                    run_vars, run, outcomes, keys_at_start, commits,
                    store_at_start, prev >>

\* The store failed the run somewhere: a duplicate query raised, or an
\* INSERT raised for a record whose timestamp is valid.
EnvironmentFault ==
    \E i \in 1..Len(outcomes) :
        \/ outcomes[i].query_failed
        \/ /\ outcomes[i].result = "Failed"
           /\ ValidTimestamp(outcomes[i].annotation.timestamp)

\* What a finished run leaves for the next one to compare with.
Report ==
    [entry |-> entry, annotations |-> annotations,
     parent_item_id |-> parent_item_id, raised |-> raised,
     successful |-> successful, skipped |-> skipped, failed |-> failed,
     processed |-> Len(outcomes), faults |-> EnvironmentFault]

\* The same file imported again under the same parent, against the same
\* store, in a new process: the generator starts from another seed and the
\* resolver answers anew.
NewRun ==
    /\ pc = "done" /\ run < MaxRuns
    /\ \E in \in RunInputs :
          /\ in.entry = entry
          /\ in.annotations = annotations
          /\ in.parent_item_id = parent_item_id
          /\ pc' = FirstStep(in.entry)
          /\ rng' = in.seed
          /\ cfis' = in.cfis
          /\ sorted_annotations' =
                 IF in.entry = ImportEntry THEN << >> ELSE in.annotations
    /\ UNCHANGED << entry, annotations, parent_item_id, highlight_color >>
    /\ run' = run + 1
    /\ prev' = Report
    /\ raised' = "none"
    /\ conn' = "none"
    /\ tx_items' = {}
    /\ tx_annotations' = {}
    /\ existing_keys' = {}
    /\ keys_at_start' = {}
    /\ idx' = 1
    /\ successful' = 0
    /\ skipped' = 0
    /\ failed' = 0
    /\ outcomes' = << >>
    /\ commits' = 0
    /\ rollbacks' = 0
    /\ store_at_start' = [items |-> items, itemAnnotations |-> itemAnnotations]
    /\ UNCHANGED << main_vars, store_vars >>

\* Another call on the same file and parent against the same store, in a
\* new process, by either entry: import_annotations_to_database, or a
\* caller of AnnotationImporter.
NewCall ==
    /\ pc = "done" /\ run < MaxRuns
    /\ \E in \in RunInputs :
          /\ in.annotations = annotations
          /\ in.parent_item_id = parent_item_id
          /\ in.highlight_color = highlight_color
          /\ entry' = in.entry
          /\ pc' = FirstStep(in.entry)
          /\ rng' = in.seed
          /\ cfis' = in.cfis
          /\ sorted_annotations' =
                 IF in.entry = ImportEntry THEN << >> ELSE in.annotations
    /\ UNCHANGED << annotations, parent_item_id, highlight_color >>
    /\ run' = run + 1
    /\ prev' = Report
    /\ raised' = "none"
    /\ conn' = "none"
    /\ tx_items' = {}
    /\ tx_annotations' = {}
    /\ existing_keys' = {}
    /\ keys_at_start' = {}
    /\ idx' = 1
    /\ successful' = 0
    /\ skipped' = 0
    /\ failed' = 0
    /\ outcomes' = << >>
    /\ commits' = 0
    /\ rollbacks' = 0
    /\ store_at_start' = [items |-> items, itemAnnotations |-> itemAnnotations]
    /\ UNCHANGED << main_vars, store_vars >>

\* main() is not running in the runs of the importer.
MainIdle ==
    /\ ParserIdle
    /\ ResolverIdle
    /\ db_exists = TRUE
    /\ file_exists = TRUE
    /\ first_line = << >>
    /\ catalog = << >>
    /\ db_error = "none"
    /\ book_identifier = NoIdentifier
    /\ epub_info = NotSearched
    /\ catalog_accessed = FALSE
    /\ exit_code = NotExited

\* The start of a run of the importer with one of the given inputs, the
\* backup file being one of the given artifacts.
InitRunOf(inputs, artifacts) ==
    /\ MainIdle
    /\ \E in \in inputs :
          /\ entry = in.entry
          /\ pc = FirstStep(in.entry)
          /\ annotations = in.annotations
          /\ parent_item_id = in.parent_item_id
          /\ highlight_color = in.highlight_color
          /\ rng = in.seed
          /\ cfis = in.cfis
          /\ sorted_annotations =
                 IF in.entry = ImportEntry THEN << >> ELSE in.annotations
    /\ \E store \in InitialStores :
          /\ items = store.items
          /\ itemAnnotations = store.itemAnnotations
          /\ store_at_start = store
    /\ backup \in artifacts
    /\ run = 1
    /\ prev = NoReport
    /\ raised = "none"
    /\ conn = "none"
    /\ tx_items = {}
    /\ tx_annotations = {}
    /\ existing_keys = {}
    /\ keys_at_start = {}
    /\ idx = 1
    /\ successful = 0
    /\ skipped = 0
    /\ failed = 0
    /\ outcomes = << >>
    /\ commits = 0
    /\ rollbacks = 0

\* The start of a run of the importer; no backup file exists.
InitRun == InitRunOf(RunInputs, { NoBackup })

\* The runs of one record, for the sequences of calls by either entry.
OneRecordInputs == { in \in RunInputs : /\ Len(in.annotations) = 1
                                        /\ in.seed = 0
                                        /\ in.highlight_color =
                                               DEFAULT_HIGHLIGHT_COLOR }

\* The backup file before the first run: absent, or left by an earlier
\* import that found the store without annotations.
EarlierBackups ==
    { NoBackup,
      [state |-> "complete", items |-> InitialItems, itemAnnotations |-> {}] }

\* The start of a sequence of calls: a run of one record, possibly with the
\* backup file of an earlier import.
InitCalls == InitRunOf(OneRecordInputs, EarlierBackups)

\* The start of main(); the store is the one before the first run and no
\* importer exists.
InitMain ==
    /\ entry = "main"
    /\ pc = "check_paths"
    /\ db_exists \in BOOLEAN
    /\ file_exists \in BOOLEAN
    /\ first_line \in FirstLines
    /\ catalog \in Catalogs
    /\ db_error \in { "none", "locked", "other" }
    \* What main() does not get to read is left empty: no database error
    \* without both files, no catalog rows without a query that answers.
    /\ (~db_exists \/ ~file_exists) => db_error = "none"
    /\ (~db_exists \/ ~file_exists \/ db_error # "none") => catalog = << >>
    /\ book_identifier = NoIdentifier
    /\ epub_info = NotSearched
    /\ catalog_accessed = FALSE
    /\ ParserIdle
    /\ ResolverIdle
    /\ exit_code = NotExited
    /\ raised = "none"
    /\ items = InitialItems
    /\ itemAnnotations = {}
    /\ backup = NoBackup
    /\ conn = "none"
    /\ tx_items = {}
    /\ tx_annotations = {}
    /\ existing_keys = {}
    /\ rng = 0
    /\ annotations = << >>
    /\ parent_item_id = 0
    /\ highlight_color = DEFAULT_HIGHLIGHT_COLOR
    /\ sorted_annotations = << >>
    /\ cfis = << >>
    /\ idx = 1
    /\ successful = 0
    /\ skipped = 0
    /\ failed = 0
    /\ run = 1
    /\ outcomes = << >>
    /\ keys_at_start = {}
    /\ commits = 0
    /\ rollbacks = 0
    /\ store_at_start = [items |-> InitialItems, itemAnnotations |-> {}]
    /\ prev = NoReport

\* No importer exists and no run has been made.
ImporterIdle ==
    /\ items = InitialItems
    /\ itemAnnotations = {}
    /\ backup = NoBackup
    /\ conn = "none"
    /\ tx_items = {}
    /\ tx_annotations = {}
    /\ existing_keys = {}
    /\ rng = 0
    /\ annotations = << >>
    /\ parent_item_id = 0
    /\ highlight_color = DEFAULT_HIGHLIGHT_COLOR
    /\ sorted_annotations = << >>
    /\ cfis = << >>
    /\ idx = 1
    /\ successful = 0
    /\ skipped = 0
    /\ failed = 0
    /\ run = 1
    /\ outcomes = << >>
    /\ keys_at_start = {}
    /\ commits = 0
    /\ rollbacks = 0
    /\ store_at_start = [items |-> InitialItems, itemAnnotations |-> {}]
    /\ prev = NoReport

\* The start of parse_annotation_file on a file written from one of the
\* section lists.
InitParse ==
    /\ entry = ParseEntry
    /\ pc = "read"
    /\ raised = "none"
    /\ file_sections \in SectionLists
    /\ content = JoinWith(file_sections, SEPARATOR)
    /\ sections = << >>
    /\ parsed = << >>
    /\ db_exists = TRUE
    /\ file_exists = TRUE
    /\ first_line = << >>
    /\ catalog = << >>
    /\ db_error = "none"
    /\ book_identifier = NoIdentifier
    /\ epub_info = NotSearched
    /\ catalog_accessed = FALSE
    /\ exit_code = NotExited
    /\ ResolverIdle
    /\ ImporterIdle

\* The start of create_epub_cfi_batch_js on a list of texts and an e-book.
InitResolve ==
    /\ entry = ResolveEntry
    /\ pc = "run"
    /\ raised = "none"
    /\ search_texts \in TextLists
    /\ epub \in Epubs
    /\ run_result = NotRun
    /\ ParserIdle
    /\ db_exists = TRUE
    /\ file_exists = TRUE
    /\ first_line = << >>
    /\ catalog = << >>
    /\ db_error = "none"
    /\ book_identifier = NoIdentifier
    /\ epub_info = NotSearched
    /\ catalog_accessed = FALSE
    /\ exit_code = NotExited
    /\ ImporterIdle

(***************************************************************************)
(* Specifications.                                                         *)
(***************************************************************************)
\* One process: main(), or one run of the importer.
Init == InitMain \/ InitRun

Next ==
    \/ MainCheckPaths
    \/ MainExtract
    \/ MainFind
    \/ MainConfidence
    \/ Backup
    \/ Resolve
    \/ Enter
    \/ ProcessRecord
    \/ ExitCommit
    \/ ExitRollback

Spec == Init /\ [][Next]_vars

\* Up to MaxRuns runs of the importer, one after the other, against the
\* same store.
NextRuns ==
    \/ Backup
    \/ Resolve
    \/ Enter
    \/ ProcessRecord
    \/ ExitCommit
    \/ ExitRollback
    \/ NewRun

SpecRuns == InitRun /\ [][NextRuns]_vars

\* Up to MaxRuns calls on one record, by either entry, one after the other,
\* against the same store.
NextCalls ==
    \/ Backup
    \/ Resolve
    \/ Enter
    \/ ProcessRecord
    \/ ExitCommit
    \/ ExitRollback
    \/ NewCall

SpecCalls == InitCalls /\ [][NextCalls]_vars

\* parse_annotation_file on one file.
NextParse ==
    \/ ParseRead
    \/ ParseSection
    \/ ParseReturn

SpecParse == InitParse /\ [][NextParse]_vars

\* create_epub_cfi_batch_js on one batch.
NextResolve ==
    \/ ResolverRun
    \/ ResolverReturn

SpecResolve == InitResolve /\ [][NextResolve]_vars

(***************************************************************************)
(* Properties.                                                             *)
(***************************************************************************)
\* The run is over and its function returned (no exception left it).
RunReturned == pc = "done" /\ raised = "none"

\* The keys insert_annotation minted in this run, in order.
MintedAt(i) == outcomes[i].result # "Skipped"
MintedIndices == { i \in 1..Len(outcomes) : MintedAt(i) }

\* No two records of the list have the same text and timestamp.
PairwiseDistinct(list) ==
    \A i, j \in 1..Len(list) :
        i # j => << list[i].text, list[i].timestamp >>
                 # << list[j].text, list[j].timestamp >>

\* C1: a record-level failure is absorbed without a transaction-wide
\* rollback: when the run has committed, the rows of every record that
\* returned Inserted before a later record returned Failed are in the store.
C1_InsertedRowsSurviveLaterFailure ==
    RunReturned =>
        \A i, j \in 1..Len(outcomes) :
            (i < j /\ outcomes[i].result = "Inserted"
                   /\ outcomes[j].result = "Failed")
            => \E r \in items :
                  /\ r.key = outcomes[i].key
                  /\ \E a \in itemAnnotations : a.itemID = r.itemID

\* C2: idempotence: a second run over the same annotation list and the same
\* parent, after a first run that found none of the records in the store,
\* both runs having handled every record of the list, with no two equal
\* records in the list and no failure of the store in either run, inserts
\* nothing, skips as many records as the first run
\* inserted, and adds no row.
C2_SecondImportInsertsNothing ==
    ( /\ run > 1
      /\ RunReturned
      /\ prev.raised = "none"
      /\ prev.annotations = annotations
      /\ prev.parent_item_id = parent_item_id
      /\ prev.skipped = 0
      /\ prev.processed = Len(annotations)
      /\ Len(outcomes) = Len(annotations)
      /\ PairwiseDistinct(annotations)
      /\ ~prev.faults
      /\ ~EnvironmentFault )
    => /\ successful = 0
       /\ skipped = prev.successful
       /\ items = store_at_start.items
       /\ itemAnnotations = store_at_start.itemAnnotations

\* The alphabet of the claim: the digits 2 to 9 and the upper-case letters
\* without I and O.
ClaimedKeyAlphabet ==
    { "2", "3", "4", "5", "6", "7", "8", "9" }
    \cup ({ UPPER[i] : i \in 1..Len(UPPER) } \ { "I", "O" })

\* C3: key uniqueness: every key minted in the run has length 8 and only
\* characters of the alphabet, the minted keys are pairwise distinct, none
\* was in the items table when the importer was entered, and every minted
\* key is in existing_keys from the step that minted it.
C3_KeyUniqueness ==
    \A i \in MintedIndices :
        /\ Len(outcomes[i].key) = 8
        /\ \A c \in 1..Len(outcomes[i].key) :
              outcomes[i].key[c] \in ClaimedKeyAlphabet
        /\ outcomes[i].key \notin keys_at_start
        /\ outcomes[i].key \in existing_keys
        /\ \A j \in MintedIndices : i # j => outcomes[i].key # outcomes[j].key

\* Two keys were minted in a run that found keys in the store, and the
\* generator was asked for more keys than were minted: a drawn key was
\* refused because it was in existing_keys.
C3_TwoKeysMintedWithRetry ==
    /\ Cardinality(MintedIndices) >= 2
    /\ keys_at_start # {}
    /\ \A seed \in Seeds :
          rng > seed + ZOTERO_KEY_LENGTH * Cardinality(MintedIndices)

\* C4: the fallback never drops data: in a run of
\* import_annotations_to_database whose resolver answered None for every
\* text, with N valid records that are no duplicates and a store that does
\* not fail, all N records are Inserted, none is Skipped or Failed, and each has
\* the page-derived position.
C4_FallbackNeverDropsData ==
    ( /\ entry = ImportEntry
      /\ pc = "done"
      /\ conn = "closed"
      /\ Len(cfis) = Len(annotations)
      /\ \A i \in 1..Len(cfis) : cfis[i] = None
      /\ \A i \in 1..Len(annotations) : ValidTimestamp(annotations[i].timestamp)
      /\ PairwiseDistinct(annotations)
      /\ store_at_start.itemAnnotations = {}
      /\ ~EnvironmentFault )
    => /\ raised = "none"
       /\ successful = Len(annotations)
       /\ skipped = 0
       /\ failed = 0
       /\ \A i \in 1..Len(sorted_annotations) :
             \E a \in itemAnnotations :
                /\ a.text = sorted_annotations[i].text
                /\ a.position = create_position_json(
                                    FallbackCfi(sorted_annotations[i].page))

\* The backup file is a complete copy of the store as the run found it.
BackupTaken ==
    /\ backup.state = "complete"
    /\ backup.items = store_at_start.items
    /\ backup.itemAnnotations = store_at_start.itemAnnotations

\* Nothing of the store has changed in this run and nothing is written.
NothingWritten ==
    /\ items = store_at_start.items
    /\ itemAnnotations = store_at_start.itemAnnotations
    /\ tx_items = {}
    /\ tx_annotations = {}

\* C5: in a run of import_annotations_to_database the backup is complete
\* before the connection is opened, so before any write; and when the backup
\* fails the run ends with no connection opened and no row written.
C5_BackupBeforeFirstWrite ==
    entry = ImportEntry =>
        /\ (conn # "none" \/ ~NothingWritten) => BackupTaken
        /\ raised = "OSError" =>
              /\ pc = "done"
              /\ conn = "none"
              /\ NothingWritten

\* The importer is entered, with the backup taken, and records to import.
C5_EnteredAfterBackup ==
    /\ entry = ImportEntry
    /\ conn = "open"
    /\ pc = "loop"
    /\ ZipLength > 0
    /\ BackupTaken

\* C6: a run that opened the transaction ends in exactly one of commit and
\* rollback: one commit and no rollback when no exception left the loop,
\* whatever the number of Failed records; one rollback, after which no row
\* of the run is in the store, only when an exception left the loop.
C6_ExactlyOneCommitOrRollback ==
    (pc = "done" /\ conn = "closed") =>
        /\ commits + rollbacks = 1
        /\ raised = "none" => (commits = 1 /\ rollbacks = 0)
        /\ rollbacks > 0 => (raised # "none" /\ NothingWritten)

\* main() has ended and the import phase was never begun: no backup file,
\* no connection, no row written.
EndedBeforeImport ==
    /\ pc = "exited"
    /\ backup = NoBackup
    /\ conn = "none"
    /\ NothingWritten

\* The ways main() ends in a fatal category.
IdentifierNotFound == entry = "main" /\ raised = "ValueError"
NoMatchFound ==
    /\ entry = "main" /\ pc = "exited" /\ raised = "none"
    /\ catalog_accessed /\ db_error = "none" /\ ~epub_info.found
ResourceLocked ==
    entry = "main" /\ pc = "exited" /\ catalog_accessed /\ db_error = "locked"
BackupFailed == entry = ImportEntry /\ raised = "OSError"

\* C7: every fatal category ends the run with a non-zero exit before any
\* row is written: IdentifierNotFound, NoMatch and ResourceLocked end main()
\* with status 1 before the import phase, IdentifierNotFound before the
\* catalog is read, a failed backup or a store that cannot be opened ends
\* import_annotations_to_database with the exception and nothing written;
\* a run of main() over a locked store never exits with 0.
C7_FatalCategoriesEndBeforeAnyWrite ==
    /\ (IdentifierNotFound \/ NoMatchFound \/ ResourceLocked)
          => (exit_code = 1 /\ EndedBeforeImport)
    /\ IdentifierNotFound => ~catalog_accessed
    /\ BackupFailed => (pc = "done" /\ conn = "none" /\ NothingWritten)
    /\ (entry = ImportEntry /\ raised = "OperationalError")
          => (pc = "done" /\ successful = 0 /\ NothingWritten)
    /\ (entry = "main" /\ db_error = "locked" /\ pc = "exited")
          => exit_code # 0

\* main() found the identifier, read the catalog and no strategy matched.
C7_NoMatchExit ==
    /\ NoMatchFound
    /\ book_identifier # NoIdentifier
    /\ catalog # << >>
    /\ exit_code = 1

\* The claim's own reading of "exact match": the path holds the identifier
\* as a substring and ends in ".epub".
HoldsIdentifier(row, identifier) ==
    Contains(row.path, identifier) /\ EndsWith(row.path, DOT_EPUB)

\* main() has called find_epub_in_database and it returned.
Searched == entry = "main" /\ catalog_accessed /\ db_error = "none"

\* C8: matcher precedence: when a row of the catalog holds the identifier
\* as a substring and ends in .epub, the result is of the exact stage,
\* whatever the Jaccard scores of the other rows; a result of a fuzzy stage
\* means that no row holds the identifier.
C8_ExactBeforeFuzzy ==
    Searched =>
        /\ (\E i \in 1..Len(catalog) : HoldsIdentifier(catalog[i], book_identifier))
              => (epub_info.found /\ epub_info.stage = "exact")
        /\ (epub_info.found /\ epub_info.stage \in { "fuzzy", "metadata" })
              => \A i \in 1..Len(catalog) :
                    ~HoldsIdentifier(catalog[i], book_identifier)

\* The result is exact although another row of the catalog has a strictly
\* higher filename score than the row returned, one above the threshold.
C8_ExactReturnedOverHigherScore ==
    /\ Searched
    /\ epub_info.found
    /\ epub_info.stage = "exact"
    /\ \E i, j \in 1..Len(catalog) :
          LET tokens == IdentifierTokens(book_identifier)
              exact == Jaccard(tokens, FilenameTokens(catalog[i]))
              other == Jaccard(tokens, FilenameTokens(catalog[j]))
          IN  /\ catalog[i].itemID = epub_info.item_id
              /\ ~HoldsIdentifier(catalog[j], book_identifier)
              /\ EndsWith(catalog[j].path, DOT_EPUB)
              /\ ScoreGreater(other, exact)
              /\ 10 * other.num > 3 * other.den

\* The rows of the catalog whose score in a fuzzy stage is above 0.3, and
\* those whose score is exactly 0.3; Tokens is FilenameTokens or
\* MetadataTokens.
AboveThreshold(Tokens(_)) ==
    { i \in 1..Len(catalog) :
        /\ EndsWith(catalog[i].path, DOT_EPUB)
        /\ LET score == Jaccard(IdentifierTokens(book_identifier),
                                Tokens(catalog[i]))
           IN  10 * score.num > 3 * score.den }
AtThreshold(Tokens(_)) ==
    { i \in 1..Len(catalog) :
        /\ EndsWith(catalog[i].path, DOT_EPUB)
        /\ LET score == Jaccard(IdentifierTokens(book_identifier),
                                Tokens(catalog[i]))
           IN  10 * score.num = 3 * score.den }

\* C9: threshold boundary: when stage 1 found nothing, stage 2 accepts
\* exactly when some row scores strictly above 0.3 (a best score of exactly
\* 0.3 is rejected); when stage 2 rejects, stage 3 decides by the same
\* rule; when stage 3 rejects too the result is null.
C9_ThresholdIsStrict ==
    (Searched /\ ~(epub_info.found /\ epub_info.stage = "exact")) =>
        /\ AboveThreshold(FilenameTokens) # {}
              => (epub_info.found /\ epub_info.stage = "fuzzy"
                  /\ \E i \in AboveThreshold(FilenameTokens) :
                        catalog[i].itemID = epub_info.item_id)
        /\ (AboveThreshold(FilenameTokens) = {}
            /\ AboveThreshold(MetadataTokens) # {})
              => (epub_info.found /\ epub_info.stage = "metadata"
                  /\ \E i \in AboveThreshold(MetadataTokens) :
                        catalog[i].itemID = epub_info.item_id)
        /\ (AboveThreshold(FilenameTokens) = {}
            /\ AboveThreshold(MetadataTokens) = {})
              => ~epub_info.found

\* The best score is exactly 0.3 in stage 2 and in stage 3, and the result
\* is null.
C9_ExactlyAtThresholdRejected ==
    /\ Searched
    /\ pc = "exited"
    /\ AtThreshold(FilenameTokens) # {}
    /\ AtThreshold(MetadataTokens) # {}
    /\ AboveThreshold(FilenameTokens) = {}
    /\ AboveThreshold(MetadataTokens) = {}
    /\ ~epub_info.found

\* C10: a match of the exact stage (confidence 1.0) proceeds to the import
\* phase without confirmation: a run of main() that found an exact match
\* has not ended without the import phase begun, and it has not ended with
\* an exception.
C10_ExactMatchProceedsToImport ==
    (entry = "main" /\ pc = "exited"
       /\ epub_info.found /\ epub_info.stage = "exact")
    => (raised = "none" /\ backup # NoBackup)

\* The lines of a section that match the pattern
\* '<date> <time> | Page No.: <digits>'.
MatchingLines(section) ==
    { k \in 1..Len(SplitOn(section, << NEWLINE >>)) :
        StampSearch(SplitOn(section, << NEWLINE >>)[k]) # 0 }

\* Everything after the first matching line of the section, trimmed.
TextAfterStampLine(section) ==
    LET lines == SplitOn(section, << NEWLINE >>)
        k == CHOOSE k \in MatchingLines(section) :
                 \A m \in MatchingLines(section) : k <= m
    IN  Strip(JoinWith(SubSeq(lines, k + 1, Len(lines)), << NEWLINE >>))

\* The section has a matching line followed by text that is not empty after
\* trimming.
GivesRecord(section) ==
    MatchingLines(section) # {} /\ TextAfterStampLine(section) # << >>

\* C11: the parser returns, in file order, exactly one record for each
\* section that has a line matching the pattern followed by text that is
\* not empty after trimming, its text being everything after that line,
\* trimmed; every other section gives no record and no error.
C11_OneRecordPerStampedSection ==
    (entry = ParseEntry /\ pc = "done") =>
        LET giving == SelectSeq(file_sections, GivesRecord)
        IN  /\ raised = "none"
            /\ Len(parsed) = Len(giving)
            /\ \A i \in 1..Len(giving) :
                  parsed[i].text = TextAfterStampLine(giving[i])

\* A file of three sections was parsed: the first and the last give a
\* record (pages 42 and 7, in file order), the one between them has its
\* text on the stamp line and gives none.
C11_TwoRecordsInFileOrder ==
    /\ entry = ParseEntry /\ pc = "done"
    /\ file_sections = << SECTION_plain, SECTION_same_line, SECTION_preamble >>
    /\ Len(parsed) = 2
    /\ parsed[1] = [timestamp |->
                    << "2", "0", "2", "4", "-", "0", "1", "-", "0", "5",
                       " ", "1", "0", ":", "3", "0" >>,
                    page |-> << "4", "2" >>,
                    text |->
                    << "A", " ", "s", "h", "o", "r", "t", " ", "h", "i",
                       "g", "h", "l", "i", "g", "h", "t", "." >>]
    /\ parsed[2].page = << "7" >>
    /\ parsed[2].text = << "b", NEWLINE, NEWLINE, "b" >>

\* The record of outcome i was Inserted and row is its annotation row.
RowOfOutcome(i, row) ==
    /\ outcomes[i].result = "Inserted"
    /\ \E r \in ViewItems : r.key = outcomes[i].key /\ r.itemID = row.itemID

\* C12: when the resolver returned a location for a record's text, the
\* order key stored for the record is not the page-based one (segment 0,
\* offset page x 1000): that key is stored only for records whose
\* resolution failed.
C12_OrderKeyFromResolvedLocation ==
    \A i \in 1..Len(outcomes) :
        \A row \in ViewAnnotations :
            (RowOfOutcome(i, row)
               /\ row.sortIndex
                    = create_sort_index_from_page(outcomes[i].annotation.page))
            => row.position # create_position_json(ResolvedCfi)

\* What resolving one text alone gives when subprocess.run ends the way it
\* ended for the batch.
ResolvedAlone(text) ==
    create_epub_cfi_js(text,
        IF run_result.kind = "completed" /\ run_result.parseable
        THEN Completed(run_result.returncode, TRUE,
                       ScriptOutput(epub, << text >>))
        ELSE run_result)

EpubIndices == { i \in 1..Len(catalog) : EndsWith(catalog[i].path, DOT_EPUB) }

\* The identifier's tokens of stage 2: lower-cased, split at white space,
\* stop words and pure-digit tokens removed.
StageTwoIdentifierTokens ==
    { t \in SplitSet(LowerStr(book_identifier)) :
        t \notin STOP_WORDS /\ ~IsDigitStr(t) }

\* The lower-cased, whitespace-split filename of a row, as it is and with
\* the stop words removed.
SplitFilename(row) ==
    SplitSet(LowerStr(RemoveSuffix(RemovePrefix(row.path, ATTACHMENTS),
                                   DOT_EPUB)))
SplitFilenameWithoutStopWords(row) == SplitFilename(row) \ STOP_WORDS

\* |A n B| / |A u B| of the identifier's tokens and a row's tokens.
JaccardNum(A, B) == Cardinality(A \cap B)
JaccardDen(A, B) == IF A \cup B = {} THEN 1 ELSE Cardinality(A \cup B)

\* i is the first row in scan order that attains the maximum score, the
\* maximum being above 0; Tokens gives the token set of a row.
FirstBest(i, A, Tokens(_)) ==
    /\ i \in EpubIndices
    /\ JaccardNum(A, Tokens(catalog[i])) > 0
    /\ \A j \in EpubIndices :
          /\ JaccardNum(A, Tokens(catalog[j])) * JaccardDen(A, Tokens(catalog[i]))
                <= JaccardNum(A, Tokens(catalog[i])) * JaccardDen(A, Tokens(catalog[j]))
          /\ j < i =>
                JaccardNum(A, Tokens(catalog[j])) * JaccardDen(A, Tokens(catalog[i]))
                  < JaccardNum(A, Tokens(catalog[i])) * JaccardDen(A, Tokens(catalog[j]))

\* The same, the maximum being above 0.3.
FirstBestAboveThreshold(i, A, Tokens(_)) ==
    /\ FirstBest(i, A, Tokens)
    /\ 10 * JaccardNum(A, Tokens(catalog[i])) > 3 * JaccardDen(A, Tokens(catalog[i]))

\* Stage 1 found nothing, so stage 2 ran.
StageTwoRan ==
    Searched /\ EpubIndices # {} /\ ~(epub_info.found /\ epub_info.stage = "exact")

\* The loop of stage 2 keeps the first row that attains the maximum score
\* (above 0); stage 2 returns it when that maximum is above 0.3, and
\* nothing otherwise.
StageTwoSelects(Tokens(_)) ==
    /\ \A i \in EpubIndices :
          FirstBest(i, StageTwoIdentifierTokens, Tokens)
          => Stage2Best(catalog, book_identifier).match = catalog[i]
    /\ \A i \in EpubIndices :
          FirstBestAboveThreshold(i, StageTwoIdentifierTokens, Tokens)
          => (epub_info.found /\ epub_info.stage = "fuzzy"
              /\ epub_info.item_id = catalog[i].itemID)
    /\ (epub_info.found /\ epub_info.stage = "fuzzy")
          => \E i \in EpubIndices :
                FirstBestAboveThreshold(i, StageTwoIdentifierTokens, Tokens)

\* C14 as amended: stage 2 selects the first candidate in scan order that
\* attains the maximum Jaccard score of A, the identifier's tokens without
\* stop words and pure-digit tokens, and B, the tokens of the filename
\* without stop words; a later candidate with an equal score never replaces
\* an earlier one; for A = {a, b, c} and B = {b, c, d} the score is 2/4.
C14_FirstBestFilenameWithoutStopWords ==
    /\ StageTwoRan => StageTwoSelects(SplitFilenameWithoutStopWords)
    /\ Jaccard({ "a", "b", "c" }, { "b", "c", "d" }) = [num |-> 2, den |-> 4]

\* Two rows tie at the maximum score, which is above 0.3, and the one that
\* comes first in the catalog was returned.
C14_TieKeepsFirst ==
    /\ StageTwoRan
    /\ Len(catalog) = 2
    /\ FirstBestAboveThreshold(1, StageTwoIdentifierTokens,
                               SplitFilenameWithoutStopWords)
    /\ JaccardNum(StageTwoIdentifierTokens, SplitFilenameWithoutStopWords(catalog[2]))
         * JaccardDen(StageTwoIdentifierTokens, SplitFilenameWithoutStopWords(catalog[1]))
       = JaccardNum(StageTwoIdentifierTokens, SplitFilenameWithoutStopWords(catalog[1]))
         * JaccardDen(StageTwoIdentifierTokens, SplitFilenameWithoutStopWords(catalog[2]))
    /\ epub_info.found
    /\ epub_info.item_id = catalog[1].itemID

\* C14 as stated: the same with B the lower-cased, whitespace-split
\* filename, its stop words kept.
C14_FirstBestFilenameAsSplit ==
    StageTwoRan => StageTwoSelects(SplitFilename)

\* C15: stage 1 accepts a catalog entry exactly when its path contains the
\* identifier as a literal, case-sensitive substring and ends in .epub: a
\* result of the exact stage is a row that holds the identifier literally,
\* and when no row holds it literally the result is not of the exact stage.
C15_ExactStageIsLiteral ==
    Searched =>
        /\ (epub_info.found /\ epub_info.stage = "exact")
              => \E i \in 1..Len(catalog) :
                    /\ catalog[i].itemID = epub_info.item_id
                    /\ HoldsIdentifier(catalog[i], book_identifier)
        /\ (\A i \in 1..Len(catalog) :
                ~HoldsIdentifier(catalog[i], book_identifier))
              => ~(epub_info.found /\ epub_info.stage = "exact")

\* The tokens of a row's creator names and title: lower-cased, split at
\* white space, stop words and tokens of length 2 or less removed.
CreatorTitleTokens(row) ==
    { t \in SplitSet(LowerStr(row.creators \o << " " >> \o row.title)) :
        t \notin STOP_WORDS /\ Len(t) >= 3 }

\* The identifier's tokens with the stop words kept and only the pure-digit
\* tokens removed.
IdentifierTokensWithStopWords ==
    { t \in SplitSet(LowerStr(book_identifier)) : ~IsDigitStr(t) }

\* Stages 1 and 2 found nothing, so stage 3 decided the result.
StageThreeRan ==
    StageTwoRan /\ ~(epub_info.found /\ epub_info.stage = "fuzzy")

\* Stage 3 accepts the best-scoring entry, by the Jaccard score of A and
\* the entry's creator-and-title tokens, exactly when that score exceeds
\* 0.3.
StageThreeSelects(A) ==
    /\ \A i \in EpubIndices :
          FirstBestAboveThreshold(i, A, CreatorTitleTokens)
          => (epub_info.found /\ epub_info.stage = "metadata"
              /\ epub_info.item_id = catalog[i].itemID)
    /\ (epub_info.found /\ epub_info.stage = "metadata")
          => \E i \in EpubIndices :
                FirstBestAboveThreshold(i, A, CreatorTitleTokens)
    /\ (~epub_info.found)
          => \A i \in EpubIndices :
                ~FirstBestAboveThreshold(i, A, CreatorTitleTokens)

\* C16 as amended: stage 3 scores each entry by the Jaccard similarity of
\* its creator-and-title tokens (stop words and tokens of length 2 or less
\* removed) and the identifier's tokens with stop words and pure-digit
\* tokens removed, and accepts the best-scoring entry if its score exceeds
\* 0.3.
C16_MetadataScoreWithoutStopWords ==
    StageThreeRan => StageThreeSelects(StageTwoIdentifierTokens)

\* Stage 3 accepted an entry for an identifier that holds stop words, at a
\* score above 0.3 that the identifier's stop words would have lowered to
\* 0.3 or less.
C16_AcceptedOnceStopWordsRemoved ==
    /\ StageThreeRan
    /\ epub_info.found
    /\ epub_info.stage = "metadata"
    /\ IdentifierTokensWithStopWords # StageTwoIdentifierTokens
    /\ \A i \in EpubIndices :
          ~FirstBestAboveThreshold(i, IdentifierTokensWithStopWords,
                                   CreatorTitleTokens)

\* C16 as stated: the same with the identifier's stop words kept and only
\* its pure-digit tokens removed.
C16_MetadataScoreWithStopWords ==
    StageThreeRan => StageThreeSelects(IdentifierTokensWithStopWords)

\* The order of two strings of digits and '|' as strings: by the first
\* character that differs, a prefix coming first.
CharCode(c) == IF c \in DIGITS THEN DigitValue(c) ELSE 10
RECURSIVE StringLess(_, _)
StringLess(s, t) ==
    IF t = << >> THEN FALSE
    ELSE IF s = << >> THEN TRUE
    ELSE IF s[1] # t[1] THEN CharCode(s[1]) < CharCode(t[1])
    ELSE StringLess(Tail(s), Tail(t))

\* Exactly 5 decimal digits, a '|', and exactly 8 decimal digits.
OrderKeyForm(key) ==
    /\ Len(key) = 14
    /\ \A k \in 1..5 : key[k] \in DIGITS
    /\ key[6] = "|"
    /\ \A k \in 7..14 : key[k] \in DIGITS

\* C17: every order key written has the form of exactly 5 digits, '|' and
\* exactly 8 digits, whatever string of digits the page is, and two
\* page-based order keys compare as strings the way their page numbers
\* compare.
C17_OrderKeyFixedWidth ==
    /\ \A row \in ViewAnnotations : OrderKeyForm(row.sortIndex)
    /\ \A i, j \in 1..Len(outcomes) :
          \A r, q \in ViewAnnotations :
              (/\ RowOfOutcome(i, r)
               /\ RowOfOutcome(j, q)
               /\ IntOrZero(outcomes[i].annotation.page)
                    < IntOrZero(outcomes[j].annotation.page))
              => StringLess(r.sortIndex, q.sortIndex)

\* The position payload computed for record i of the run: the resolved
\* location, or the page-derived one when there is none.
ComputedPosition(i) ==
    create_position_json(
        IF cfis[i] # None THEN cfis[i]
        ELSE FallbackCfi(outcomes[i].annotation.page))

\* The row has everything but the color as the insert operation is
\* described: type highlight, empty comment and page label, the computed
\* order key and position payload, not external.
RowAsComputed(i, row) ==
    /\ row.type = HIGHLIGHT_TYPE
    /\ row.comment = ""
    /\ row.pageLabel = ""
    /\ row.sortIndex = create_sort_index_from_page(outcomes[i].annotation.page)
    /\ row.position = ComputedPosition(i)
    /\ row.isExternal = 0

\* C18: the annotation row of each Inserted outcome has the highlight color
\* chosen for the import, type highlight, empty comment and page label, the
\* computed order key and position payload, and the external flag off.
C18_InsertedRowHasChosenColor ==
    \A i \in 1..Len(outcomes) :
        \A row \in ViewAnnotations :
            RowOfOutcome(i, row)
            => (row.color = highlight_color /\ RowAsComputed(i, row))

\* The records that went through the duplicate check, the key minting and
\* the insert, in the order in which they did; the three steps of a record
\* are one call of insert_annotation, which returns before the next call.
ProcessedRecords == [i \in 1..Len(outcomes) |-> outcomes[i].annotation]

\* A run of import_annotations_to_database has ended, the resolver having
\* answered for every record and nothing around the run having failed.
ImportRunEnded ==
    /\ entry = ImportEntry
    /\ pc = "done"
    /\ conn = "closed"
    /\ Len(cfis) = Len(annotations)
    /\ ~EnvironmentFault

C20_FailedDuplicateQueryGoesOn ==
    \A i \in 1..Len(outcomes) :
        outcomes[i].query_failed
        => /\ outcomes[i].result # "Skipped"
           /\ Len(outcomes[i].key) = ZOTERO_KEY_LENGTH
           /\ (outcomes[i].result = "Failed") <=> outcomes[i].insert_failed
           /\ (outcomes[i].result = "Inserted") <=> ~outcomes[i].insert_failed

\* The duplicate query raised for a record that is in the store already,
\* and the record was inserted a second time.
C20_DuplicateInsertedAfterFailedQuery ==
    \E i \in 1..Len(outcomes) :
        /\ outcomes[i].query_failed
        /\ outcomes[i].result = "Inserted"
        /\ \E a \in store_at_start.itemAnnotations :
              /\ a.parentItemID = parent_item_id
              /\ a.text = outcomes[i].annotation.text
              /\ \E r \in store_at_start.items :
                    /\ r.itemID = a.itemID
                    /\ r.dateAdded = DateAdded(outcomes[i].annotation.timestamp)

\* The run has committed: __exit__ ran without an exception.
RunCommitted == RunReturned /\ conn = "closed" /\ commits > 0

\* The rows of the store that were not in it when the run began.
AddedItems == items \ store_at_start.items
AddedAnnotations == itemAnnotations \ store_at_start.itemAnnotations

\* C21: when a run commits, the number of annotation rows the run added to
\* the store equals the Inserted count it reports, whatever the order of
\* the Inserted, Skipped and Failed records in the run.
C21_RowsAddedEqualInsertedCount ==
    RunCommitted => Cardinality(AddedAnnotations) = successful

\* C22: every record handed to the importer gets exactly one outcome: for
\* a run that returns, Inserted + Skipped + Failed equals the number of
\* records, whatever list the resolver returned, a list shorter than the
\* list of records included.
C22_EveryRecordHasOneOutcome ==
    RunCommitted =>
        /\ successful + skipped + failed = Len(annotations)
        /\ Len(outcomes) = Len(annotations)


\* The added rows of the items table with the given id, of type annotation.
AddedItemsOf(item_id) ==
    { row \in AddedItems : /\ row.itemID = item_id
                           /\ row.itemTypeID = ANNOTATION_ITEM_TYPE_ID }

\* C23: in the committed store the item rows and the annotation rows a run
\* added are in one-to-one correspondence: each added annotation row
\* references exactly one added item row of type annotation, and no added
\* item row is without its annotation row, also when the second INSERT of a
\* record raised.
C23_AddedRowsCorrespond ==
    RunCommitted =>
        /\ \A row \in AddedAnnotations :
              Cardinality(AddedItemsOf(row.itemID)) = 1
        /\ \A row \in AddedItems :
              /\ row.itemTypeID = ANNOTATION_ITEM_TYPE_ID
              /\ Cardinality({ a \in AddedAnnotations :
                                  a.itemID = row.itemID }) = 1

\* A committed run in which the second INSERT of a record raised and a later
\* record was inserted: the store holds the later record's two rows only.
C23_Witness ==
    /\ RunCommitted
    /\ Len(outcomes) = 2
    /\ outcomes[1].result = "Failed"
    /\ outcomes[1].raised_at = "itemAnnotations"
    /\ outcomes[2].result = "Inserted"
    /\ Cardinality(AddedItems) = 1
    /\ Cardinality(AddedAnnotations) = 1


\* The run is past the backup step of import_annotations_to_database.
ReachedBackupStep == entry = ImportEntry /\ pc # "backup"

\* The copy of the backup step did not raise.
CompletedBackupStep == ReachedBackupStep /\ raised # "OSError"

NoQueryFailed == \A i \in 1..Len(outcomes) : ~outcomes[i].query_failed

\* What the duplicate query compares of an added annotation row: the parent,
\* the text, and dateAdded of its row of the items table.
DuplicateKey(row) ==
    << row.parentItemID, row.text,
       { i.dateAdded : i \in { r \in AddedItems : r.itemID = row.itemID } } >>

\* C25: provided no duplicate query fails, a committed run leaves at most
\* one annotation row per (parent id, text, dateAdded) among the rows it
\* wrote: of two records with the same text and timestamp the second is
\* checked against the uncommitted row of the first.
C25_OneRowPerDuplicateKey ==
    (RunCommitted /\ NoQueryFailed) =>
        \A a, b \in AddedAnnotations :
            DuplicateKey(a) = DuplicateKey(b) => a = b

\* A committed run over the same record twice, the store not holding it
\* before: the first is inserted, the second skipped, one row is added.
C25_Witness ==
    /\ RunCommitted
    /\ NoQueryFailed
    /\ Len(outcomes) = 2
    /\ outcomes[1].annotation = outcomes[2].annotation
    /\ outcomes[1].result = "Inserted"
    /\ outcomes[2].result = "Skipped"
    /\ Cardinality(AddedAnnotations) = 1

====
